---- MODULE Spec2Model ----
(***************************************************************************)
(* Push-to-talk dictation pipeline of typeswift (app crate).               *)
(*                                                                         *)
(*   Spec        device callback -> ring buffer -> AudioProcessor ->       *)
(*               Transcriber -> AppController (services/audio.rs,          *)
(*               controller.rs, state.rs)                                  *)
(*   SpecTyping  TypingQueue: owner and cloned handles, the channel, the   *)
(*               typing worker and its retry loop (output.rs)              *)
(*                                                                         *)
(* Amplitudes are integers in units of 1/10000 (0.5 = 5000, 0.99 = 9900).  *)
(* Strings are sequences of one-character strings.                         *)
(***************************************************************************)
EXTENDS Integers, Sequences, FiniteSets, TLC

(* ---------------------------- bounds ----------------------------------- *)
\* ring capacity (target_sample_rate * 30 in the source, scaled down)
RingCap == 2
\* samples the device delivers over a whole behaviour
MaxDelivered == 3
\* samples per callback invocation
MaxCbLen == 2
\* recording sessions (successful AudioProcessor.start_recording calls)
MaxSessions == 2
\* read_audio(8000) of the drain loop, scaled down
DrainChunk == 1
\* Type commands queue_typing may create over a whole behaviour
MaxOps == 2
\* resampler input chunk (1024 in the source), scaled down
ResampleChunk == 2
\* samples in one process_audio batch handed to the Transcriber directly
MaxBatch == 2
\* samples the Transcriber's buffer accumulates
MaxTBuffer == 3
\* listeners registered with the AppStateManager
MaxListeners == 2
\* listener invocations over a whole behaviour
MaxNotified == 4
\* characters of AppStateManager.transcription
MaxTextLen == 2
\* calls of AudioCapture::new
MaxNewCalls == 3
\* calls of AudioProcessor::initialize
MaxInitCalls == 4
\* characters of a live text
MaxLiveLen == 3
\* recordings started through VoicyApp
MaxRecordings == 3
\* reset threads of VoicyApp asleep at the same time
MaxResets == 2
\* raw hotkey events handled by the event loop
MaxRawEvents == 4
\* samples pushed while several handles read
MaxReadSamples == 4
\* read_audio calls made by the handles together
MaxReadCalls == 3
\* max_samples of those calls
ReadMaxSamples == 2
\* refused queue_typing calls counted between two resets
MaxRefused == 1
\* samples the device delivers to a streaming AudioProcessor
MaxStreamSamples == 4
\* start_recording calls made on a streaming AudioProcessor
MaxStreamStarts == 2
\* read_chunk_size of the polling thread (sample_rate / 10 in the source)
ReadChunkSize == 2
\* min_samples_for_processing of the polling thread, from the configuration
MinSamplesForProcessing == 2
\* process_interval of the polling thread, in loop iterations of 10 ms
ProcessIntervalTicks == 2

(* ------------------------- program constants --------------------------- *)
\* process_audio: normalise when the peak exceeds 1.5
NormalizeThreshold == 15000
\* process_audio: the peak after normalisation, 0.99
NormalizeTarget == 9900

\* amplitudes the device delivers: 0.5 and 2.0
Amps == {5000, 20000}

\* variant: one retry too many
MAX_RETRIES_Three == 2 + 1

\* type_with_retry: `const MAX_RETRIES: u32 = 2`
MAX_RETRIES == 2
\* type_with_retry: `Duration::from_millis(10 << attempt)`
BackoffBase == 10
\* worker_loop: `const MAX_CONSECUTIVE_FAILURES: u32 = 5`
MAX_CONSECUTIVE_FAILURES == 5

\* the handles of one TypingQueue: the instance new() returned and its clones
Handles == { "owner", "c1", "c2" }

\* texts handed to queue_typing
Texts == { <<>>, <<"a">> }

\* amplitudes of the batches handed to process_audio: -2.0, 0.5 and 1.5
TAmps == { -20000, 5000, 15000 }

\* raw results of the external engine's transcribe
RawTexts == { <<" ">>, <<"a">>, <<" ", "a", " ">> }

VARIABLES
    \* --- device / AudioCapture (services/audio.rs) ---
    needs_resampling,   \* device_sample_rate != target_sample_rate
    is_recording,       \* Arc<RwLock<bool>>
    ring,               \* HeapRb<f32>, oldest sample first
    overflow_count,     \* callback-local drop counter
    input_buffer,       \* callback-local resampler input
    cb_pc,              \* callback position: "idle" | "push"
    cb_seen,            \* the flag value the running/last invocation observed
    cb_out,             \* samples the running invocation still has to push
    delivered,          \* device samples handed to the callback so far
    \* --- AudioProcessor / Transcriber ---
    has_capture,        \* AudioProcessor.audio_capture.is_some()
    has_transcriber,    \* AudioProcessor.transcriber.is_some()
    audio_buffer,       \* AudioProcessor.audio_buffer
    chunk,              \* read_audio's local `samples`
    t_buffer,           \* Transcriber.audio_buffer
    engine_calls,       \* transcribe invocations during the running stop
    engine_audio,       \* audio handed to the running stop's transcribe
    engine_session,     \* session during which that transcribe ran
    \* --- AppController / AppStateManager ---
    recording_state,    \* "Idle" | "Recording" | "Processing"
    transcription,      \* AppStateManager.transcription
    ctl_pc,             \* controller position: "idle" | "drain" | "finish"
    final_text,         \* stop_recording().unwrap_or_default()
    enable_typing,      \* config.output.enable_typing
    add_space_between_utterances,
    ctl_queued,         \* commands the controller handed to queue_typing
    typed_text,         \* StreamingManager.typed_text
    pending_text,       \* StreamingManager.pending_text
    \* --- history ---
    \* (the per-stop entries are cleared when handle_event returns)
    session,            \* recording sessions started so far
    pushed,             \* identities of the samples try_push accepted, in order
    popped,             \* identities of the samples try_pop returned, in order
    drained_last,       \* audio drained by the running stop_recording
    stop_mark,          \* Len(popped) when the running stop_recording began
    offered,            \* identities: ring content at session start, then every
                        \* sample try_push was called with while recording
    raced,              \* a try_push ran while stop_recording was draining
    engine_result,      \* raw result of the running stop's transcribe
    last_event,         \* what handle_event did with the last hotkey event:
                        \* "None" | "Pressed" | "PressedIgnored" |
                        \* "Released" | "ReleasedIgnored"
    init_outcome,       \* outcome of the last AudioProcessor::initialize
    stop_result,        \* "None" | "Ok" | "Err": what the running
                        \* AudioProcessor::stop_recording returned
    heard,              \* device samples the callback took with the flag on,
                        \* less those dropped on overflow and those a
                        \* finished stop_recording has returned
    read_ring,          \* the ring when the running read_audio began
    read_raced,         \* a try_push ran during the running read_audio
    \* --- TypingQueue (output.rs) ---
    chan,               \* mpsc channel: commands sent and not yet received
    next_op_id,         \* static NEXT_OP_ID
    h_pc,               \* per handle: "absent" | "live" | "sending" |
                        \*             "joining" | "dropped"
    h_cmd,              \* per handle: the command queue_typing is about to send
    worker_pc,          \* "recv" | "typing" | "exited"
    w_cmd,              \* the Type command the worker is typing
    w_attempt,          \* type_with_retry's `attempt`
    consecutive_failures,
    \* --- TypingQueue history ---
    enq,                \* op_ids in the order their commands entered the channel
    accepted,           \* op_ids whose queue_typing returned Ok
    rejected,           \* op_ids whose queue_typing returned WindowOperationFailed
    consumed,           \* op_ids in the order the worker received them
    inj,                \* every enigo.text call: op, kind, attempt, and for
                        \* a text call its outcome ok
    sleeps,             \* every backoff sleep: op, ms
    done,               \* every type_with_retry return: op, success
    shutdown_by,        \* handles that sent Shutdown, in order
    joined_by,          \* handles that joined the worker, in order
    q_noop,             \* the most recent queue_typing call returned Ok at
                        \* its empty-operation check
    warnings,           \* "Repeated typing failures" warnings logged
    \* --- AppStateManager (state.rs), besides recording_state/transcription ---
    is_window_visible,
    is_preferences_visible,
    listeners,          \* number of registered listeners
    notified,           \* listener invocations so far
    observed,           \* what the listeners read when they last ran
    \* --- Transcriber called directly ---
    t_last,             \* the last call: op, buffer before, argument, engine
                        \* calls and audio, returned value
    \* --- the Config behind the Preferences window (main.rs) ---
    prefs_enable_typing,
    \* --- device streams (AudioThread) ---
    streams_created,    \* streams built and started by AudioCapture::new
    streams_dropped,    \* streams torn down by Drop for AudioThread
    \* --- the streaming AudioProcessor (audio/processor.rs) and its thread ---
    sp,                 \* one record, see SNew
    \* --- one call of AudioCapture::new and its device thread ---
    cn,                 \* one record, see CNew
    \* --- AudioProcessor::initialize and the process-wide engine ---
    eng,                \* one record, see ENew
    \* --- the StreamingManager driven by live texts ---
    sm,                 \* one record, see SMNew
    \* --- AudioCapture clones and AudioReader handles reading the ring ---
    rd,                 \* one record, see RNew
    \* --- the hotkey event loop thread ---
    hk,                 \* one record, see HNew
    \* --- VoicyApp, the earlier controller (src/src/app.rs) ---
    va                  \* one record, see VNew

avars == << needs_resampling, is_recording, ring, overflow_count, input_buffer,
            cb_pc, cb_seen, cb_out, delivered, has_capture, has_transcriber,
            audio_buffer, chunk, t_buffer, engine_calls, engine_audio,
            engine_session, recording_state, transcription, ctl_pc, final_text,
            enable_typing, add_space_between_utterances, ctl_queued, session,
            pushed, popped, drained_last, stop_mark, offered, raced,
            engine_result, typed_text, pending_text, last_event, init_outcome,
            stop_result, heard, read_ring, read_raced >>

tvars == << chan, next_op_id, h_pc, h_cmd, worker_pc, w_cmd, w_attempt,
            consecutive_failures, enq, accepted, rejected, consumed, inj, sleeps,
            done, shutdown_by, joined_by, q_noop, warnings >>

svars == << is_window_visible, is_preferences_visible, listeners, notified,
           observed >>

xvars == << t_last >>

pvars == << prefs_enable_typing >>

dvars == << streams_created, streams_dropped >>

mvars == << sp >>

evars == << cn, eng, sm, rd, hk, va >>

vars == << avars, tvars, svars, xvars, pvars, dvars, mvars, evars >>

\* avars without recording_state and transcription
avars_but_state ==
    << needs_resampling, is_recording, ring, overflow_count, input_buffer,
       cb_pc, cb_seen, cb_out, delivered, has_capture, has_transcriber,
       audio_buffer, chunk, t_buffer, engine_calls, engine_audio,
       engine_session, ctl_pc, final_text, enable_typing,
       add_space_between_utterances, ctl_queued, session, pushed, popped,
       drained_last, stop_mark, offered, raced, engine_result, typed_text,
       pending_text, last_event, init_outcome, stop_result, heard, read_ring,
       read_raced >>

\* avars without t_buffer
avars_but_t_buffer ==
    << needs_resampling, is_recording, ring, overflow_count, input_buffer,
       cb_pc, cb_seen, cb_out, delivered, has_capture, has_transcriber,
       audio_buffer, chunk, engine_calls, engine_audio, engine_session,
       recording_state, transcription, ctl_pc, final_text, enable_typing,
       add_space_between_utterances, ctl_queued, session, pushed, popped,
       drained_last, stop_mark, offered, raced, engine_result, typed_text,
       pending_text, last_event, init_outcome, stop_result, heard, read_ring,
       read_raced >>

(* ----------------------------- helpers --------------------------------- *)
Abs(x) == IF x < 0 THEN -x ELSE x

Max2(a, b) == IF a >= b THEN a ELSE b

RECURSIVE SumAmp(_)
SumAmp(s) == IF s = <<>> THEN 0 ELSE Head(s).amp + SumAmp(Tail(s))

\* audio.iter().copied().map(f32::abs).fold(0.0f32, f32::max)
RECURSIVE MaxAmp(_)
MaxAmp(s) == IF s = <<>> THEN 0 ELSE Max2(Abs(Head(s).amp), MaxAmp(Tail(s)))

\* str::trim: strip leading and trailing whitespace
RECURSIVE TrimStart(_)
TrimStart(s) == IF s # <<>> /\ Head(s) = " " THEN TrimStart(Tail(s)) ELSE s

RECURSIVE TrimEnd(_)
TrimEnd(s) ==
    IF s # <<>> /\ s[Len(s)] = " " THEN TrimEnd(SubSeq(s, 1, Len(s) - 1)) ELSE s

Trim(s) == TrimEnd(TrimStart(s))

(* ------------------------- RingTransfer -------------------------------- *)
\* producer.try_push(sample): Err (sample dropped) when the ring is full
TryPushOk(r) == Len(r) < RingCap

\* variant: a full ring overwrites its oldest sample (drop-oldest)
TryPush_Overwrite(r, s) == IF TryPushOk(r) THEN Append(r, s) ELSE Append(Tail(r), s)

TryPush(r, s) == IF TryPushOk(r) THEN Append(r, s) ELSE r

\* consumer.try_pop(): the oldest sample, removed from the ring
\* variant: try_pop hands out the newest sample instead of the oldest
TryPopValue_Newest(r) == r[Len(r)]

TryPopValue(r) == Head(r)

TryPopRest(r) == Tail(r)

(* --------------------- device callback (producer) ---------------------- *)
\* the callback's `if !*is_recording_clone.read() { return; }`
\* variant: the callback forwards whatever the flag says
CallbackForwards_Always(flag) == TRUE

CallbackForwards(flag) == flag

\* the identity of a ring sample: the device samples it was made of
Id(s) == [src |-> s.src, sess |-> s.sess]

Ids(q) == [i \in 1..Len(q) |-> Id(q[i])]

\* the device samples of q that went into none of the ring samples of gone
Without(q, gone) ==
    SelectSeq(q, LAMBDA d : \A i \in 1..Len(gone) :
                               \A j \in 1..Len(gone[i].src) : gone[i].src[j] # d.k)

\* variant: the direct-copy path halves every sample
Direct_Halved(d) == [src |-> << d.k >>, sess |-> { d.sess }, amp |-> d.amp \div 2]

\* a device sample as it enters the ring on the direct-copy path
Direct(d) == [src |-> << d.k >>, sess |-> { d.sess }, amp |-> d.amp]

\* resampler.process(&[input_chunk]): one output sample per input chunk, a
\* weighted mean of the chunk (low-pass and decimate by ResampleChunk)
Resample(c) ==
    << [src  |-> [i \in 1..Len(c) |-> c[i].k],
        sess |-> { c[i].sess : i \in 1..Len(c) },
        amp  |-> SumAmp(c) \div Len(c)] >>

\* `while input_buffer.len() >= 1024 { drain(..1024); process; push each }`:
\* the next chunk taken off the input buffer and the samples it yields
NextChunk(ib) ==
    IF Len(ib) >= ResampleChunk
    THEN [ib  |-> SubSeq(ib, ResampleChunk + 1, Len(ib)),
          out |-> Resample(SubSeq(ib, 1, ResampleChunk))]
    ELSE [ib |-> ib, out |-> <<>>]

\* the n samples of one callback invocation
DeviceData(n, amps) ==
    [i \in 1..n |-> [k |-> delivered + i, sess |-> session, amp |-> amps[i]]]

\* One invocation of the input-stream callback up to its first try_push:
\* the flag check, the mono copy and (when resampling) the first chunk.
CallbackBegin(n, amps) ==
    /\ has_capture
    /\ cb_pc = "idle"
    /\ delivered + n <= MaxDelivered
    /\ delivered' = delivered + n
    /\ cb_seen' = is_recording
    /\ IF ~CallbackForwards(is_recording)
       THEN UNCHANGED << input_buffer, cb_out, cb_pc, heard >>
       ELSE LET data == DeviceData(n, amps) IN
            /\ heard' = heard \o data
            /\ IF needs_resampling
               THEN LET nc == NextChunk(input_buffer \o data) IN
                    /\ input_buffer' = nc.ib
                    /\ cb_out' = nc.out
                    /\ cb_pc' = IF nc.out = <<>> THEN "idle" ELSE "push"
               ELSE /\ cb_out' = [i \in 1..n |-> Direct(data[i])]
                    /\ cb_pc' = "push"
                    /\ UNCHANGED input_buffer
    /\ UNCHANGED << needs_resampling, is_recording, ring, overflow_count,
                    has_capture, has_transcriber, audio_buffer, chunk,
                    t_buffer, engine_calls, engine_audio, engine_session,
                    recording_state, transcription, ctl_pc, final_text,
                    enable_typing, add_space_between_utterances, ctl_queued,
                    session, pushed, popped, drained_last, stop_mark, offered,
                    raced, engine_result, typed_text, pending_text,
                    last_event, init_outcome, stop_result, read_ring,
                    read_raced >>
    /\ UNCHANGED << tvars, svars, xvars, pvars, dvars,
                    mvars, evars >>

\* the locks held by a caller that is inside read_audio
HeldByReader == IF ctl_pc = "drain" THEN { "consumer" } ELSE {}

\* variant: the producer sits behind the consumer's mutex
PushLocks_Consumer == { "consumer" }

\* the locks a try_push of the callback acquires: the producer is owned by
\* the callback closure
PushLocks == {}

\* One try_push of the running invocation, with the overflow accounting, and
\* the loop bookkeeping that follows it.
CallbackPush ==
    /\ cb_pc = "push"
    /\ PushLocks \cap HeldByReader = {}
    /\ LET s == Head(cb_out) IN
       /\ ring' = TryPush(ring, s)
       /\ IF TryPushOk(ring)
          THEN /\ pushed' = Append(pushed, Id(s))
               /\ UNCHANGED << overflow_count, heard >>
          ELSE /\ overflow_count' = overflow_count + 1
               /\ heard' = Without(heard, << s >>)
               /\ UNCHANGED pushed
    /\ offered' = IF ctl_pc = "idle" /\ is_recording
                  THEN Append(offered, Id(Head(cb_out))) ELSE offered
    /\ raced' = (raced \/ ctl_pc = "drain")
    /\ read_raced' = (read_raced \/ ctl_pc = "drain")
    /\ IF Tail(cb_out) # <<>>
       THEN /\ cb_out' = Tail(cb_out)
            /\ UNCHANGED << cb_pc, input_buffer >>
       ELSE IF needs_resampling
            THEN LET nc == NextChunk(input_buffer) IN
                 /\ input_buffer' = nc.ib
                 /\ cb_out' = nc.out
                 /\ cb_pc' = IF nc.out = <<>> THEN "idle" ELSE "push"
            ELSE /\ cb_out' = <<>>
                 /\ cb_pc' = "idle"
                 /\ UNCHANGED input_buffer
    /\ UNCHANGED << needs_resampling, is_recording, cb_seen, delivered,
                    has_capture, has_transcriber, audio_buffer, chunk,
                    t_buffer, engine_calls, engine_audio, engine_session,
                    recording_state, transcription, ctl_pc, final_text,
                    enable_typing, add_space_between_utterances, ctl_queued,
                    session, popped, drained_last, stop_mark, engine_result,
                    typed_text, pending_text, last_event, init_outcome,
                    stop_result, read_ring >>
    /\ UNCHANGED << tvars, svars, xvars, pvars, dvars,
                    mvars, evars >>

(* ------------------- AudioCapture (consumer side) ---------------------- *)
\* AudioCapture::start_recording: `*self.is_recording.write() = true`
CaptureStartRecording(flag) == TRUE

\* AudioCapture::stop_recording: `*self.is_recording.write() = false`
CaptureStopRecording(flag) == FALSE

\* variant: the loop takes one sample more than max_samples
ReadContinues_OneMore(c, r, max_samples) == Len(c) <= max_samples /\ r # <<>>

\* read_audio's loop condition `samples.len() < max_samples` together with
\* `if let Some(sample) = consumer.try_pop()`
ReadContinues(c, r, max_samples) == Len(c) < max_samples /\ r # <<>>

(* --------------------------- Transcriber ------------------------------- *)
\* start_session: `self.audio_buffer.lock().clear()`
StartSession(buf) == <<>>

\* `sample * scale` with scale = 0.99 / max_amp
Scale(a, m) ==
    IF a >= 0 THEN (a * NormalizeTarget) \div m
              ELSE -(((-a) * NormalizeTarget) \div m)

\* variant: a batch whose peak is exactly 1.5 is rescaled too
ProcessAudio_AtThreshold(buf, audio) ==
    LET m == MaxAmp(audio) IN
    IF m >= NormalizeThreshold
    THEN buf \o [i \in 1..Len(audio) |-> [audio[i] EXCEPT !.amp = Scale(@, m)]]
    ELSE buf \o audio

\* variant: only the samples that are themselves above 1.5 are rescaled
ProcessAudio_PerSample(buf, audio) ==
    LET m == MaxAmp(audio) IN
    buf \o [i \in 1..Len(audio) |->
               IF Abs(audio[i].amp) > NormalizeThreshold
               THEN [audio[i] EXCEPT !.amp = Scale(@, m)] ELSE audio[i]]

\* process_audio: append the batch, rescaled when its peak exceeds 1.5
ProcessAudio(buf, audio) ==
    LET m == MaxAmp(audio) IN
    IF m > NormalizeThreshold
    THEN buf \o [i \in 1..Len(audio) |-> [audio[i] EXCEPT !.amp = Scale(@, m)]]
    ELSE buf \o audio

\* the outcomes of swift_transcriber.transcribe(&audio)
EngineResults ==
    { [ok |-> TRUE, text |-> r] : r \in RawTexts } \cup { [ok |-> FALSE, text |-> <<>>] }

\* variant: end_session hands the taken buffer to the engine even when empty
EndSession_CallsOnEmpty(audio, res) ==
    IF res.ok THEN [ok |-> TRUE, text |-> Trim(res.text), called |-> TRUE]
    ELSE [ok |-> FALSE, text |-> <<>>, called |-> TRUE]

\* end_session on the taken buffer: no engine call for empty audio, else the
\* trimmed text or TranscriptionFailed
EndSession(audio, res) ==
    IF audio = <<>> THEN [ok |-> TRUE, text |-> <<>>, called |-> FALSE]
    ELSE IF res.ok THEN [ok |-> TRUE, text |-> Trim(res.text), called |-> TRUE]
    ELSE [ok |-> FALSE, text |-> <<>>, called |-> TRUE]

(* ------------------------- AppStateManager ----------------------------- *)
\* enum RecordingState
RecordingStates == { "Idle", "Recording", "Processing" }

\* variant: a press is accepted in every state
CanStartRecording_Any(st) == TRUE

CanStartRecording(st) == st = "Idle"

\* variant: a release is accepted in every state
CanStopRecording_Any(st) == TRUE

\* variant: a release is accepted in Idle too
CanStopRecording_IdleToo(st) == st \in { "Idle", "Recording" }

CanStopRecording(st) == st = "Recording"

\* set_recording_state: writes (and notifies) only when the state changes
SetRecordingState(old, new) == IF old # new THEN new ELSE old

(* -------------------------- AppController ------------------------------ *)
\* the outcomes of AudioProcessor::initialize
InitOutcomes == { "model_failed", "audio_failed", "ok" }

\* AudioProcessor::initialize: the fields after the call. Transcriber::new and
\* AudioCapture::new both run before either field is assigned.
\* variant: the transcriber is stored before the capture is constructed
Initialize_Partial(o, capture, transcriber) ==
    IF o = "ok" THEN [capture |-> TRUE, transcriber |-> TRUE]
    ELSE IF o = "audio_failed" THEN [capture |-> capture, transcriber |-> TRUE]
    ELSE [capture |-> capture, transcriber |-> transcriber]

Initialize(o, capture, transcriber) ==
    IF o = "ok" THEN [capture |-> TRUE, transcriber |-> TRUE]
    ELSE [capture |-> capture, transcriber |-> transcriber]

\* variant: start_recording initializes on every call
NeedsInitialize_Always(capture, transcriber) == TRUE

\* start_recording: `if self.audio_capture.is_none() || self.transcriber.is_none()`
NeedsInitialize(capture, transcriber) == ~capture \/ ~transcriber

\* handle_event(PushToTalkPressed), AudioProcessor::start_recording included
Pressed ==
    /\ ctl_pc = "idle"
    /\ session < MaxSessions
    /\ IF CanStartRecording(recording_state)
       THEN /\ last_event' = "Pressed"
            /\ recording_state' = SetRecordingState(recording_state, "Recording")
            /\ transcription' = <<>>
            \* streaming_manager.reset()
            /\ typed_text' = <<>>
            /\ pending_text' = <<>>
            /\ IF ~NeedsInitialize(has_capture, has_transcriber)
               THEN \* already initialised: clear the local buffer, set the flag
                    /\ audio_buffer' = <<>>
                    /\ is_recording' = CaptureStartRecording(is_recording)
                    /\ session' = session + 1
                    /\ offered' = Ids(ring)
                    /\ UNCHANGED << has_capture, has_transcriber, ring,
                                    overflow_count, input_buffer, pushed, popped,
                                    init_outcome, heard, streams_created,
                                    streams_dropped >>
               ELSE \E o \in InitOutcomes :
                    LET f == Initialize(o, has_capture, has_transcriber) IN
                    /\ init_outcome' = o
                    /\ has_capture' = f.capture
                    /\ has_transcriber' = f.transcriber
                    /\ IF o = "ok"
                       THEN \* initialize(): a new Transcriber and AudioCapture;
                            \* a capture it replaces is dropped with its stream
                            /\ streams_created' = streams_created + 1
                            /\ streams_dropped' =
                                  streams_dropped + (IF has_capture THEN 1 ELSE 0)
                            /\ ring' = <<>>
                            /\ overflow_count' = 0
                            /\ input_buffer' = <<>>
                            /\ pushed' = <<>>
                            /\ popped' = <<>>
                            /\ audio_buffer' = <<>>
                            /\ is_recording' = CaptureStartRecording(FALSE)
                            /\ session' = session + 1
                            /\ offered' = <<>>
                            /\ heard' = <<>>
                       ELSE \* `self.initialize()?` returns the error
                            UNCHANGED << ring, overflow_count, input_buffer,
                                         pushed, popped, audio_buffer,
                                         is_recording, session, offered,
                                         heard, streams_created,
                                         streams_dropped >>
       ELSE \* "Cannot start recording": nothing but the log line
            /\ last_event' = "PressedIgnored"
            /\ UNCHANGED << recording_state, transcription, typed_text,
                            pending_text, has_capture, has_transcriber, ring,
                            overflow_count, input_buffer, pushed, popped,
                            audio_buffer, is_recording, session, offered,
                            init_outcome, heard, streams_created,
                            streams_dropped >>
    /\ UNCHANGED << needs_resampling, cb_pc, cb_seen, cb_out, delivered, chunk,
                    t_buffer, engine_calls, engine_audio, engine_session, ctl_pc,
                    final_text, enable_typing, add_space_between_utterances,
                    ctl_queued, drained_last, stop_mark, raced, engine_result,
                    stop_result, read_ring, read_raced >>
    /\ UNCHANGED << tvars, svars, xvars, pvars, mvars, evars >>

\* handle_event(PushToTalkReleased) up to the first read_audio of
\* AudioProcessor::stop_recording
Released ==
    /\ ctl_pc = "idle"
    /\ IF CanStopRecording(recording_state)
       THEN /\ last_event' = "Released"
            /\ recording_state' = SetRecordingState(recording_state, "Processing")
            /\ engine_calls' = 0
            /\ stop_mark' = Len(popped)
            /\ raced' = FALSE
            /\ IF has_capture
               THEN /\ is_recording' = CaptureStopRecording(is_recording)
                    /\ audio_buffer' = <<>>
                    /\ chunk' = <<>>
                    /\ ctl_pc' = "drain"
                    /\ read_ring' = ring
                    /\ read_raced' = FALSE
                    /\ UNCHANGED << final_text, stop_result >>
               ELSE \* no capture: stop_recording returns Ok(String::new())
                    /\ final_text' = <<>>
                    /\ stop_result' = "Ok"
                    /\ ctl_pc' = "finish"
                    /\ UNCHANGED << is_recording, audio_buffer, chunk,
                                    read_ring, read_raced >>
       ELSE \* "Cannot stop recording": nothing but the log line
            /\ last_event' = "ReleasedIgnored"
            /\ UNCHANGED << recording_state, engine_calls, is_recording, stop_mark,
                            raced, audio_buffer, chunk, ctl_pc, final_text,
                            stop_result, read_ring, read_raced >>
    /\ UNCHANGED << needs_resampling, ring, overflow_count, input_buffer, cb_pc,
                    cb_seen, cb_out, delivered, has_capture, has_transcriber,
                    t_buffer, engine_audio, engine_session, transcription,
                    enable_typing, add_space_between_utterances, ctl_queued,
                    session, pushed, popped, drained_last, offered, engine_result,
                    typed_text, pending_text, init_outcome, heard >>
    /\ UNCHANGED << tvars, svars, xvars, pvars, dvars,
                    mvars, evars >>

\* one successful try_pop inside read_audio(8000)
DrainPop ==
    /\ ctl_pc = "drain"
    /\ ReadContinues(chunk, ring, DrainChunk)
    /\ chunk' = Append(chunk, TryPopValue(ring))
    /\ popped' = Append(popped, Id(TryPopValue(ring)))
    /\ ring' = TryPopRest(ring)
    /\ UNCHANGED << needs_resampling, is_recording, overflow_count, input_buffer,
                    cb_pc, cb_seen, cb_out, delivered, has_capture,
                    has_transcriber, audio_buffer, t_buffer, engine_calls,
                    engine_audio, engine_session, recording_state, transcription,
                    ctl_pc, final_text, enable_typing,
                    add_space_between_utterances, ctl_queued, session, pushed,
                    drained_last, stop_mark, offered, raced, engine_result,
                    typed_text, pending_text, last_event, init_outcome,
                    stop_result, heard, read_ring, read_raced >>
    /\ UNCHANGED << tvars, svars, xvars, pvars, dvars,
                    mvars, evars >>

\* read_audio returns a non-empty chunk: `audio_buffer.extend_from_slice(&chunk)`
DrainChunkDone ==
    /\ ctl_pc = "drain"
    /\ ~ReadContinues(chunk, ring, DrainChunk)
    /\ chunk # <<>>
    /\ audio_buffer' = audio_buffer \o chunk
    /\ chunk' = <<>>
    \* the loop calls read_audio again at once
    /\ read_ring' = ring
    /\ read_raced' = FALSE
    /\ UNCHANGED << needs_resampling, is_recording, ring, overflow_count,
                    input_buffer, cb_pc, cb_seen, cb_out, delivered, has_capture,
                    has_transcriber, t_buffer, engine_calls, engine_audio,
                    engine_session, recording_state, transcription, ctl_pc,
                    final_text, enable_typing, add_space_between_utterances,
                    ctl_queued, session, pushed, popped, drained_last, stop_mark,
                    offered, raced, engine_result, typed_text, pending_text,
                    last_event, init_outcome, stop_result, heard >>
    /\ UNCHANGED << tvars, svars, xvars, pvars, dvars,
                    mvars, evars >>

\* what AudioProcessor::stop_recording does with the drained audio: nothing
\* when it is empty (or there is no transcriber), else one start_session,
\* process_audio, end_session cycle
\* variant: the drained audio is handed to the engine whatever its length
Submit_Always(buf, tbuf, has_tr, res) ==
    LET audio == ProcessAudio(StartSession(tbuf), buf) IN
    [ran |-> TRUE, called |-> TRUE, ok |-> res.ok,
     text |-> IF res.ok THEN Trim(res.text) ELSE <<>>, audio |-> audio]

Submit(buf, tbuf, has_tr, res) ==
    IF buf # <<>> /\ has_tr
    THEN LET audio == ProcessAudio(StartSession(tbuf), buf)
             r == EndSession(audio, res)
         IN [ran |-> TRUE, called |-> r.called, ok |-> r.ok, text |-> r.text,
             audio |-> audio]
    ELSE [ran |-> FALSE, called |-> FALSE, ok |-> TRUE, text |-> <<>>,
          audio |-> <<>>]

\* read_audio returns an empty chunk: the loop breaks and the rest of
\* stop_recording runs (start_session, process_audio, end_session)
DrainFinish ==
    /\ ctl_pc = "drain"
    /\ ~ReadContinues(chunk, ring, DrainChunk)
    /\ chunk = <<>>
    /\ drained_last' = audio_buffer
    /\ read_ring' = <<>>
    /\ read_raced' = FALSE
    /\ \E res \in EngineResults :
          LET r == Submit(audio_buffer, t_buffer, has_transcriber, res) IN
          /\ t_buffer' = IF r.ran THEN <<>> ELSE t_buffer
          /\ engine_calls' = engine_calls + (IF r.called THEN 1 ELSE 0)
          /\ engine_audio' = IF r.called THEN r.audio ELSE engine_audio
          /\ engine_session' = IF r.called THEN session ELSE engine_session
          /\ engine_result' = IF r.called THEN res ELSE engine_result
          /\ stop_result' = IF r.ok THEN "Ok" ELSE "Err"
          \* `audio.stop_recording().unwrap_or_default()`
          /\ final_text' = IF r.ok THEN Trim(r.text) ELSE <<>>
    /\ ctl_pc' = "finish"
    /\ UNCHANGED << needs_resampling, is_recording, ring, overflow_count,
                    input_buffer, cb_pc, cb_seen, cb_out, delivered, has_capture,
                    has_transcriber, audio_buffer, chunk, recording_state,
                    transcription, enable_typing, add_space_between_utterances,
                    ctl_queued, session, pushed, popped, stop_mark, offered,
                    raced, typed_text, pending_text, last_event, init_outcome,
                    heard >>
    /\ UNCHANGED << tvars, svars, xvars, pvars, dvars,
                    mvars, evars >>

\* variant: `audio.stop_recording()?`, an error leaves the handler early
ReleaseTarget_ErrReturns(res) == IF res = "Err" THEN "Processing" ELSE "Idle"

\* the state the release handler stores last: stop_recording's error is
\* replaced by the empty string (`unwrap_or_default`) and queue_typing's by
\* `.ok()`, so the handler always reaches set_recording_state(Idle)
ReleaseTarget(res) == "Idle"

\* the rest of handle_event(PushToTalkReleased): queue the final text for
\* typing and return to Idle
ReleaseEnd ==
    /\ ctl_pc = "finish"
    /\ ctl_queued' =
          IF final_text # <<>> /\ enable_typing
          THEN Append(ctl_queued, [text |-> final_text,
                                   add_space |-> add_space_between_utterances])
          ELSE ctl_queued
    /\ recording_state' =
          SetRecordingState(recording_state, ReleaseTarget(stop_result))
    /\ ctl_pc' = "idle"
    /\ final_text' = <<>>
    /\ engine_calls' = 0
    /\ engine_audio' = <<>>
    /\ engine_session' = 0
    /\ engine_result' = [ok |-> TRUE, text |-> <<>>]
    /\ drained_last' = <<>>
    /\ stop_mark' = 0
    /\ offered' = <<>>
    /\ raced' = FALSE
    /\ stop_result' = "None"
    /\ heard' = Without(heard, drained_last)
    /\ UNCHANGED << needs_resampling, is_recording, ring, overflow_count,
                    input_buffer, cb_pc, cb_seen, cb_out, delivered, has_capture,
                    has_transcriber, audio_buffer, chunk, t_buffer,
                    transcription, enable_typing, add_space_between_utterances,
                    session, pushed, popped, typed_text, pending_text,
                    last_event, init_outcome, read_ring, read_raced >>
    /\ UNCHANGED << tvars, svars, xvars, pvars, dvars,
                    mvars, evars >>

(* --------------------------- Preferences ------------------------------- *)
\* PreferencesView typing_row, on_mouse_down: flips enable_typing in the
\* Config it shares with the views
TogglePrefsTyping ==
    /\ prefs_enable_typing' = ~prefs_enable_typing
    /\ UNCHANGED << avars, tvars, svars, xvars, dvars,
                    mvars, evars >>

(* ============================ TypingQueue ============================= *)
NoCmd == [kind |-> "None"]

ShutdownCmd == [kind |-> "Shutdown"]

TypeCmd(id, text, add_space) ==
    [kind |-> "Type", op_id |-> id, text |-> text, add_space |-> add_space]

\* variant: a clone carries the worker handle too
OwnsWorker_Any(h) == TRUE

\* Drop: `if self.worker_handle.is_some()`; Clone sets worker_handle to None
OwnsWorker(h) == h = "owner"

\* variant: queue_typing has no empty-operation check
IsEmptyOperation_Never(text, add_space) == FALSE

\* queue_typing: `if text.is_empty() && !add_space { return Ok(()) }`
IsEmptyOperation(text, add_space) == text = <<>> /\ ~add_space

\* variant: the worker takes the newest command
RecvIndex_Last(c) == Len(c)

\* the command `receiver.recv()` hands to the worker
RecvIndex(c) == 1

RECURSIVE Pow2(_)
Pow2(n) == IF n = 0 THEN 1 ELSE 2 * Pow2(n - 1)

\* `10 << attempt` milliseconds
Backoff(attempt) == BackoffBase * Pow2(attempt)

\* variant: a send into a channel whose receiver is gone still succeeds
SendFails_Never == FALSE

\* variant: the sender reports an error while the worker is counting failures
SendFails_WhileFailing == worker_pc = "exited" \/ consecutive_failures > 0

\* `sender.send(..)` is Err exactly when the worker has dropped the receiver
SendFails == worker_pc = "exited"

\* `if consecutive_failures >= MAX_CONSECUTIVE_FAILURES { warn!(..) }`
Warns(failures) == IF failures >= MAX_CONSECUTIVE_FAILURES THEN 1 ELSE 0

\* variant: the worker leaves its loop once the threshold is reached
AfterFailure_HaltAtThreshold(failures) ==
    IF failures >= MAX_CONSECUTIVE_FAILURES THEN "exited" ELSE "recv"

\* where worker_loop goes after a failed operation: `continue`, or the end of
\* the match arm, both back to `receiver.recv()` whatever the count
AfterFailure(failures) == "recv"

\* Clone for TypingQueue: a new handle sharing the sender
CloneHandle(h, c) ==
    /\ h_pc[h] \in { "live", "sending" }
    /\ h_pc[c] = "absent"
    \* clones are named in the order they are made
    /\ c = "c1" \/ (c = "c2" /\ h_pc["c1"] # "absent")
    /\ h_pc' = [h_pc EXCEPT ![c] = "live"]
    /\ UNCHANGED << chan, next_op_id, h_cmd, worker_pc, w_cmd, w_attempt,
                    consecutive_failures, enq, accepted, rejected, consumed, inj,
                    sleeps, done, shutdown_by, joined_by, q_noop,
                    warnings >>
    /\ UNCHANGED << avars, svars, xvars, pvars, dvars,
                    mvars, evars >>

\* queue_typing up to the send: the empty-operation check and the op_id
QueueBegin(h, text, add_space) ==
    /\ h_pc[h] = "live"
    /\ IF IsEmptyOperation(text, add_space)
       THEN /\ q_noop' = TRUE
            /\ UNCHANGED << next_op_id, h_pc, h_cmd >>
       ELSE /\ q_noop' = FALSE
            /\ next_op_id' = next_op_id + 1
            /\ h_cmd' = [h_cmd EXCEPT ![h] = TypeCmd(next_op_id, text, add_space)]
            /\ h_pc' = [h_pc EXCEPT ![h] = "sending"]
    /\ UNCHANGED << chan, worker_pc, w_cmd, w_attempt, consecutive_failures, enq,
                    accepted, rejected, consumed, inj, sleeps, done, shutdown_by,
                    joined_by, warnings >>
    /\ UNCHANGED << avars, svars, xvars, pvars, dvars,
                    mvars, evars >>

\* queue_typing's `sender.send(..)`: Err once the worker dropped the receiver
QueueSend(h) ==
    /\ h_pc[h] = "sending"
    /\ IF SendFails
       THEN /\ rejected' = rejected \cup { h_cmd[h].op_id }
            /\ UNCHANGED << chan, enq, accepted >>
       ELSE /\ chan' = Append(chan, h_cmd[h])
            /\ enq' = Append(enq, h_cmd[h].op_id)
            /\ accepted' = accepted \cup { h_cmd[h].op_id }
            /\ UNCHANGED rejected
    /\ h_pc' = [h_pc EXCEPT ![h] = "live"]
    /\ h_cmd' = [h_cmd EXCEPT ![h] = NoCmd]
    /\ UNCHANGED << next_op_id, worker_pc, w_cmd, w_attempt, consecutive_failures,
                    consumed, inj, sleeps, done, shutdown_by, joined_by, q_noop,
                    warnings >>
    /\ UNCHANGED << avars, svars, xvars, pvars, dvars,
                    mvars, evars >>

\* Drop for TypingQueue up to the join: the owner sends Shutdown
DropHandle(h) ==
    /\ h_pc[h] = "live"
    /\ IF OwnsWorker(h)
       THEN /\ chan' = IF worker_pc = "exited" THEN chan ELSE Append(chan, ShutdownCmd)
            /\ shutdown_by' = Append(shutdown_by, h)
            /\ h_pc' = [h_pc EXCEPT ![h] = "joining"]
       ELSE /\ h_pc' = [h_pc EXCEPT ![h] = "dropped"]
            /\ UNCHANGED << chan, shutdown_by >>
    /\ UNCHANGED << next_op_id, h_cmd, worker_pc, w_cmd, w_attempt,
                    consecutive_failures, enq, accepted, rejected, consumed, inj,
                    sleeps, done, joined_by, q_noop, warnings >>
    /\ UNCHANGED << avars, svars, xvars, pvars, dvars,
                    mvars, evars >>

\* Drop for TypingQueue: `handle.join()` returns once the worker has exited
JoinWorker(h) ==
    /\ h_pc[h] = "joining"
    /\ worker_pc = "exited"
    /\ h_pc' = [h_pc EXCEPT ![h] = "dropped"]
    /\ joined_by' = Append(joined_by, h)
    /\ UNCHANGED << chan, next_op_id, h_cmd, worker_pc, w_cmd, w_attempt,
                    consecutive_failures, enq, accepted, rejected, consumed, inj,
                    sleeps, done, shutdown_by, q_noop, warnings >>
    /\ UNCHANGED << avars, svars, xvars, pvars, dvars,
                    mvars, evars >>

\* worker_loop: `receiver.recv()` and the match up to type_with_retry;
\* enigo_ok is the outcome of Enigo::new
WorkerRecv(enigo_ok) ==
    /\ worker_pc = "recv"
    /\ chan # <<>>
    /\ LET i == RecvIndex(chan)
           command == chan[i]
       IN /\ chan' = SubSeq(chan, 1, i - 1) \o SubSeq(chan, i + 1, Len(chan))
          /\ IF command.kind = "Shutdown"
             THEN /\ worker_pc' = "exited"
                  /\ UNCHANGED << w_cmd, w_attempt, consecutive_failures, consumed,
                                  warnings >>
             ELSE /\ consumed' = Append(consumed, command.op_id)
                  /\ IF enigo_ok
                     THEN /\ worker_pc' = "typing"
                          /\ w_cmd' = command
                          /\ w_attempt' = 0
                          /\ UNCHANGED << consecutive_failures, warnings >>
                     ELSE \* Enigo::new failed: count it and `continue`
                          /\ consecutive_failures' = consecutive_failures + 1
                          /\ warnings' = warnings + Warns(consecutive_failures + 1)
                          /\ worker_pc' = AfterFailure(consecutive_failures + 1)
                          /\ UNCHANGED << w_cmd, w_attempt >>
    /\ UNCHANGED << next_op_id, h_pc, h_cmd, enq, accepted, rejected, inj, sleeps,
                    done, shutdown_by, joined_by, q_noop >>
    /\ UNCHANGED << avars, svars, xvars, pvars, dvars,
                    mvars, evars >>

\* One iteration of type_with_retry's loop, and on its last iteration the
\* failure accounting of worker_loop; text_ok is the outcome of
\* enigo.text(text), while the outcome of enigo.text(" ") is only logged
WorkerAttempt(text_ok) ==
    /\ worker_pc = "typing"
    /\ LET c == w_cmd
           spaceCall == IF c.add_space
                        THEN << [op |-> c.op_id, kind |-> "space",
                                 attempt |-> w_attempt] >>
                        ELSE <<>>
           textCall == IF c.text # <<>>
                       THEN << [op |-> c.op_id, kind |-> "text",
                                attempt |-> w_attempt, ok |-> text_ok] >>
                       ELSE <<>>
           success == c.text = <<>> \/ text_ok
           finished == success \/ ~(w_attempt < MAX_RETRIES)
       IN /\ inj' = inj \o spaceCall \o textCall
          /\ sleeps' = IF ~success /\ w_attempt < MAX_RETRIES
                       THEN Append(sleeps, [op |-> c.op_id, ms |-> Backoff(w_attempt)])
                       ELSE sleeps
          /\ IF finished
             THEN /\ done' = Append(done, [op |-> c.op_id, success |-> success])
                  /\ consecutive_failures' =
                        IF success THEN 0 ELSE consecutive_failures + 1
                  /\ warnings' =
                        IF success THEN warnings
                        ELSE warnings + Warns(consecutive_failures + 1)
                  /\ worker_pc' =
                        IF success THEN "recv"
                        ELSE AfterFailure(consecutive_failures + 1)
                  /\ w_cmd' = NoCmd
                  /\ w_attempt' = 0
             ELSE /\ w_attempt' = w_attempt + 1
                  /\ UNCHANGED << done, consecutive_failures, worker_pc, w_cmd,
                                  warnings >>
    /\ UNCHANGED << chan, next_op_id, h_pc, h_cmd, enq, accepted, rejected,
                    consumed, shutdown_by, joined_by, q_noop >>
    /\ UNCHANGED << avars, svars, xvars, pvars, dvars,
                    mvars, evars >>

(* --------------- AppStateManager called by any client ------------------ *)
\* variant: the listeners run before the new value is stored
NotifyListeners_BeforeStore ==
    /\ notified + listeners <= MaxNotified
    /\ notified' = notified + listeners
    /\ observed' = IF listeners > 0
                   THEN [state |-> recording_state, text |-> transcription]
                   ELSE observed

\* notify_listeners, called after the write: every registered listener runs
\* once, on the caller's thread, and sees the stored values
NotifyListeners ==
    /\ notified + listeners <= MaxNotified
    /\ notified' = notified + listeners
    /\ observed' = IF listeners > 0
                   THEN [state |-> recording_state', text |-> transcription']
                   ELSE observed

\* set_recording_state(new): write and notify when the state differs
SetRecordingStateCall(new) ==
    /\ recording_state' = SetRecordingState(recording_state, new)
    /\ UNCHANGED << transcription, is_window_visible, is_preferences_visible,
                    listeners >>
    /\ IF recording_state # new THEN NotifyListeners
       ELSE UNCHANGED << notified, observed >>
    /\ UNCHANGED << avars_but_state, tvars, xvars, pvars, dvars,
                    mvars, evars >>

\* set_transcription(text)
SetTranscription(text) ==
    /\ transcription' = text
    /\ UNCHANGED << recording_state, is_window_visible, is_preferences_visible,
                    listeners >>
    /\ NotifyListeners
    /\ UNCHANGED << avars_but_state, tvars, xvars, pvars, dvars,
                    mvars, evars >>

\* append_transcription(text)
AppendTranscription(text) ==
    /\ Len(transcription) + Len(text) <= MaxTextLen
    /\ transcription' = transcription \o text
    /\ UNCHANGED << recording_state, is_window_visible, is_preferences_visible,
                    listeners >>
    /\ NotifyListeners
    /\ UNCHANGED << avars_but_state, tvars, xvars, pvars, dvars,
                    mvars, evars >>

\* clear_transcription()
ClearTranscription ==
    /\ transcription' = <<>>
    /\ UNCHANGED << recording_state, is_window_visible, is_preferences_visible,
                    listeners >>
    /\ NotifyListeners
    /\ UNCHANGED << avars_but_state, tvars, xvars, pvars, dvars,
                    mvars, evars >>

\* set_window_visible(visible)
SetWindowVisible(visible) ==
    /\ is_window_visible' = visible
    /\ UNCHANGED << is_preferences_visible, listeners >>
    /\ UNCHANGED << avars, tvars, xvars, pvars, dvars,
                    mvars, evars >>
    /\ NotifyListeners

\* set_preferences_visible(visible)
SetPreferencesVisible(visible) ==
    /\ is_preferences_visible' = visible
    /\ UNCHANGED << is_window_visible, listeners >>
    /\ UNCHANGED << avars, tvars, xvars, pvars, dvars,
                    mvars, evars >>
    /\ NotifyListeners

\* add_listener(f)
AddListener ==
    /\ listeners < MaxListeners
    /\ listeners' = listeners + 1
    /\ UNCHANGED << is_window_visible, is_preferences_visible, notified,
                    observed >>
    /\ UNCHANGED << avars, tvars, xvars, pvars, dvars,
                    mvars, evars >>

(* ------------------- Transcriber called directly ----------------------- *)
\* a sample handed to process_audio by a direct caller
TSample(a) == [src |-> <<>>, sess |-> {}, amp |-> a]

\* the batches a caller hands to process_audio
Batches ==
    UNION { [1..n -> { TSample(a) : a \in TAmps }] : n \in 0..MaxBatch }

\* no call of the Transcriber has been made yet
NoCall ==
    [op |-> "none", before |-> <<>>, arg |-> <<>>,
     res |-> [ok |-> TRUE, text |-> <<>>], calls |-> 0, audio |-> <<>>,
     ret |-> [ok |-> TRUE, text |-> <<>>, err |-> "None"]]

\* Transcriber::start_session
TStartSession ==
    /\ has_transcriber
    /\ t_buffer' = StartSession(t_buffer)
    /\ t_last' = [NoCall EXCEPT !.op = "start_session", !.before = t_buffer]
    /\ UNCHANGED << avars_but_t_buffer, tvars, svars, pvars, dvars,
                    mvars, evars >>

\* Transcriber::process_audio(batch)
TProcessAudio(batch) ==
    /\ has_transcriber
    /\ Len(t_buffer) + Len(batch) <= MaxTBuffer
    /\ t_buffer' = ProcessAudio(t_buffer, batch)
    /\ t_last' = [NoCall EXCEPT !.op = "process_audio", !.before = t_buffer,
                                !.arg = batch]
    /\ UNCHANGED << avars_but_t_buffer, tvars, svars, pvars, dvars,
                    mvars, evars >>

\* Transcriber::end_session, the engine answering res when it is called
TEndSession(res) ==
    /\ has_transcriber
    /\ LET r == EndSession(t_buffer, res) IN
       /\ t_buffer' = <<>>
       /\ t_last' = [op |-> "end_session", before |-> t_buffer, arg |-> <<>>,
                     res |-> res,
                     calls |-> IF r.called THEN 1 ELSE 0,
                     audio |-> IF r.called THEN t_buffer ELSE <<>>,
                     ret |-> [ok |-> r.ok, text |-> r.text,
                              err |-> IF r.ok THEN "None"
                                      ELSE "TranscriptionFailed"]]
    /\ UNCHANGED << avars_but_t_buffer, tvars, svars, pvars, dvars,
                    mvars, evars >>

(* --------------------------- specification ----------------------------- *)
\* TypingQueue::new(true): the channel is empty and the worker waits in recv
TInit ==
    /\ chan = <<>>
    /\ next_op_id = 1
    /\ h_pc = [h \in Handles |-> IF h = "owner" THEN "live" ELSE "absent"]
    /\ h_cmd = [h \in Handles |-> NoCmd]
    /\ worker_pc = "recv"
    /\ w_cmd = NoCmd
    /\ w_attempt = 0
    /\ consecutive_failures = 0
    /\ enq = <<>>
    /\ accepted = {}
    /\ rejected = {}
    /\ consumed = <<>>
    /\ inj = <<>>
    /\ sleeps = <<>>
    /\ done = <<>>
    /\ shutdown_by = <<>>
    /\ joined_by = <<>>
    /\ q_noop = FALSE
    /\ warnings = 0

\* AppController::new: the processor is initialised eagerly, which may fail
\* ---------------------------------------------------------------------------
\* The streaming AudioProcessor: start_recording spawns a polling thread that
\* reads the capture ring and submits audio to the transcriber; stop_recording
\* signals it, joins it and cleans up.  Two variants of the thread exist, the
\* optimized one (app/src/audio/processor.rs) and the earlier one
\* (src/audio/processor.rs); sp.legacy says which one the processor runs.
\* ---------------------------------------------------------------------------

\* outcomes of Transcriber::process_audio: a text (possibly empty) or an error
StreamResults ==
    { [ ok |-> TRUE, text |-> <<>> ],
      [ ok |-> TRUE, text |-> << "a" >> ],
      [ ok |-> FALSE, text |-> <<>> ] }

\* the processor as constructed by AudioProcessor::new
SNew(lg) ==
    [ legacy                  |-> lg,
      initialized             |-> FALSE,    \* audio_capture and transcriber are Some
      is_recording            |-> FALSE,    \* the capture's is_recording flag
      ring                    |-> <<>>,     \* the capture's ring buffer (sample ids)
      captured                |-> 0,        \* samples delivered by the device so far
      poll_pc                 |-> "none",   \* the polling thread's position
      accumulated_audio       |-> <<>>,
      total_samples_processed |-> 0,
      since_last_process      |-> 0,        \* last_process.elapsed(), in iterations
      stop_chan               |-> "none",   \* the stop channel
      stop_signal             |-> FALSE,    \* self.stop_signal is Some
      processing_handle       |-> FALSE,    \* self.processing_handle is Some
      result_receiver         |-> FALSE,    \* self.result_receiver is Some
      results                 |-> <<>>,     \* texts in the result channel
      proc_pc                 |-> "idle",   \* the caller's position in stop_recording
      log                     |-> <<>>,     \* steps taken by the last stop_recording
      ret                     |-> "None",   \* what the last stop_recording returned
      text                    |-> <<>>,     \* the string it returned, when Ok
      final_text              |-> <<>>,     \* stop_recording's final_text
      submitted               |-> <<>>,     \* the calls to process_audio of this thread
      starts                  |-> 0,        \* start_recording calls so far
      dropped                 |-> FALSE ]   \* the processor has been dropped

\* The stop check at the top of the loop: the optimized thread leaves on a
\* received signal and on a disconnected channel, the earlier thread only on
\* a received signal.
StopRequested(lg, stop_rx) ==
    IF lg THEN stop_rx = "sent" ELSE stop_rx \in { "sent", "disconnected" }

\* The samples handed to process_audio: everything after the processed count.
SliceFrom_Start(acc, total) == acc

SliceFrom(acc, total) == SubSeq(acc, total + 1, Len(acc))

\* should_process of the loop
ShouldProcess(acc, total, since) ==
    /\ Len(acc) - total >= MinSamplesForProcessing
    /\ since >= ProcessIntervalTicks
    /\ acc # <<>>

\* the cpal callback of the capture: dropped unless recording, else pushed
StreamCallback ==
    /\ sp.captured < MaxStreamSamples
    /\ sp.initialized
    /\ sp' = [ sp EXCEPT !.captured = @ + 1,
                         !.ring = IF sp.is_recording
                                  THEN TryPush(@, sp.captured + 1) ELSE @ ]
    /\ UNCHANGED << avars, tvars, svars, xvars, pvars, dvars, evars >>

\* AudioProcessor::start_recording with streaming enabled
StreamStart(init_ok, session_ok) ==
    /\ sp.proc_pc = "idle"
    /\ ~sp.dropped
    /\ sp.poll_pc \in { "none", "exited" }
    /\ sp.starts < MaxStreamStarts
    /\ IF ~sp.initialized /\ ~init_ok
       THEN sp' = [ sp EXCEPT !.starts = @ + 1 ]
       ELSE IF ~session_ok
       THEN sp' = [ sp EXCEPT !.starts = @ + 1,
                              !.initialized = TRUE,
                              !.is_recording = TRUE ]
       ELSE sp' = [ sp EXCEPT !.starts = @ + 1,
                              !.initialized = TRUE,
                              !.is_recording = TRUE,
                              !.poll_pc = "check",
                              !.accumulated_audio = <<>>,
                              !.total_samples_processed = 0,
                              !.since_last_process = 0,
                              !.submitted = <<>>,
                              !.stop_chan = "open",
                              !.stop_signal = TRUE,
                              !.processing_handle = TRUE,
                              !.result_receiver = TRUE,
                              !.results = <<>> ]
    /\ UNCHANGED << avars, tvars, svars, xvars, pvars, dvars, evars >>

\* the loop's stop check
PollCheck ==
    /\ sp.poll_pc = "check"
    /\ sp' = [ sp EXCEPT !.poll_pc =
                 IF StopRequested(sp.legacy, sp.stop_chan) THEN "exited" ELSE "read" ]
    /\ UNCHANGED << avars, tvars, svars, xvars, pvars, dvars, evars >>

\* capture.read_audio(read_chunk_size) and the extension of accumulated_audio
PollRead ==
    /\ sp.poll_pc = "read"
    /\ LET n == IF Len(sp.ring) < ReadChunkSize THEN Len(sp.ring) ELSE ReadChunkSize
       IN sp' = [ sp EXCEPT !.poll_pc = "decide",
                            !.ring = SubSeq(@, n + 1, Len(@)),
                            !.accumulated_audio = @ \o SubSeq(sp.ring, 1, n) ]
    /\ UNCHANGED << avars, tvars, svars, xvars, pvars, dvars, evars >>

\* the rest of the iteration: the decision, the submission and the sleep
PollProcess(res, slept) ==
    /\ sp.poll_pc = "decide"
    /\ IF ShouldProcess(sp.accumulated_audio, sp.total_samples_processed,
                        sp.since_last_process)
       THEN sp' = [ sp EXCEPT
                !.poll_pc = "check",
                !.submitted = Append(@,
                    [ audio  |-> SliceFrom(sp.accumulated_audio,
                                           sp.total_samples_processed),
                      waited |-> sp.since_last_process ]),
                !.results = IF res.ok /\ res.text # <<>> /\ sp.result_receiver
                            THEN Append(@, res.text) ELSE @,
                !.accumulated_audio = IF sp.legacy THEN <<>> ELSE @,
                !.total_samples_processed =
                    IF sp.legacy THEN 0 ELSE Len(sp.accumulated_audio),
                !.since_last_process = slept ]
       ELSE /\ res = [ ok |-> TRUE, text |-> <<>> ]
            /\ sp' = [ sp EXCEPT
                !.poll_pc = "check",
                !.since_last_process =
                    IF @ + slept < ProcessIntervalTicks
                    THEN @ + slept ELSE ProcessIntervalTicks ]
    /\ UNCHANGED << avars, tvars, svars, xvars, pvars, dvars, evars >>

\* get_live_transcription: a non-blocking receive on the result channel
GetLiveTranscription ==
    /\ sp.proc_pc = "idle"
    /\ ~sp.dropped
    /\ sp.result_receiver
    /\ sp.results # <<>>
    /\ sp' = [ sp EXCEPT !.results = Tail(@) ]
    /\ UNCHANGED << avars, tvars, svars, xvars, pvars, dvars, evars >>

\* stop_recording, first step: take the stop sender and send on it
StopSignal ==
    /\ sp.proc_pc = "idle"
    /\ ~sp.dropped
    /\ sp' = [ sp EXCEPT !.proc_pc = "join",
                         !.log = << "signal" >>,
                         !.ret = "None",
                         !.text = <<>>,
                         !.stop_signal = FALSE,
                         !.stop_chan = IF sp.stop_signal THEN "sent" ELSE @ ]
    /\ UNCHANGED << avars, tvars, svars, xvars, pvars, dvars, evars >>

\* second step: take the handle and join it
StopJoin ==
    /\ sp.proc_pc = "join"
    /\ sp.processing_handle => sp.poll_pc = "exited"
    /\ sp' = [ sp EXCEPT !.proc_pc = "capture",
                         !.log = Append(@, "join"),
                         !.processing_handle = FALSE ]
    /\ UNCHANGED << avars, tvars, svars, xvars, pvars, dvars, evars >>

\* third step: capture.stop_recording()
StopCapture ==
    /\ sp.proc_pc = "capture"
    /\ sp' = [ sp EXCEPT !.proc_pc = "end",
                         !.log = Append(@, "capture"),
                         !.is_recording = FALSE ]
    /\ UNCHANGED << avars, tvars, svars, xvars, pvars, dvars, evars >>

\* fourth step: transcriber.end_session()?, which returns early on an error
StopEndSession(ok, final) ==
    /\ sp.proc_pc = "end"
    /\ IF sp.initialized /\ ~ok
       THEN sp' = [ sp EXCEPT !.proc_pc = "idle",
                              !.log = Append(@, "end_session"),
                              !.ret = "Err" ]
       ELSE sp' = [ sp EXCEPT !.proc_pc = "drain",
                              !.log = Append(@, "end_session"),
                              !.final_text =
                                  IF sp.legacy /\ sp.initialized THEN final ELSE <<>> ]
    /\ UNCHANGED << avars, tvars, svars, xvars, pvars, dvars, evars >>

\* all_text of the earlier stop_recording: each text followed by a space
RECURSIVE AllText(_)
AllText(rs) == IF rs = <<>> THEN <<>> ELSE Head(rs) \o << " " >> \o AllText(Tail(rs))

\* fifth step: drain the result channel, drop the receiver and return
StopDrain ==
    /\ sp.proc_pc = "drain"
    /\ sp' = [ sp EXCEPT
            !.proc_pc = "idle",
            !.log = Append(@, "drain"),
            !.results = IF sp.result_receiver THEN <<>> ELSE @,
            !.result_receiver = FALSE,
            !.ret = "Ok",
            !.final_text = <<>>,
            !.text = IF sp.legacy
                     THEN Trim(AllText(IF sp.result_receiver THEN sp.results ELSE <<>>)
                               \o sp.final_text)
                     ELSE <<>> ]
    /\ UNCHANGED << avars, tvars, svars, xvars, pvars, dvars, evars >>

\* the processor is dropped while idle: its stop sender, thread handle and
\* result receiver go with it
DropProcessor ==
    /\ sp.proc_pc = "idle"
    /\ ~sp.dropped
    /\ sp.starts > 0
    /\ sp' = [ sp EXCEPT !.dropped = TRUE,
                         !.stop_chan = IF sp.stop_signal THEN "disconnected" ELSE @,
                         !.stop_signal = FALSE,
                         !.processing_handle = FALSE,
                         !.result_receiver = FALSE,
                         !.results = <<>> ]
    /\ UNCHANGED << avars, tvars, svars, xvars, pvars, dvars, evars >>

\* ---------------------------------------------------------------------------
\* AudioCapture::new (services/audio.rs): the caller spawns the device thread
\* and waits on the readiness channel; the thread sets up the device step by
\* step, reports the first failure or readiness, and then parks on the stop
\* channel with the stream alive.
\* ---------------------------------------------------------------------------

\* the steps of the device thread that can fail, in order
SetupSteps == << "device", "config", "resampler", "build", "play" >>

\* before the first call
CNew ==
    [ calls            |-> 0,         \* AudioCapture::new calls so far
      caller_pc        |-> "idle",    \* idle, waiting (in ready_rx.recv) or returned
      thread_pc        |-> "none",    \* none, a setup step, signal, parked or ended
      needs_resampling |-> FALSE,     \* device_sample_rate != target_sample_rate
      ready_msg        |-> "none",    \* the message in the readiness channel
      ready_tx         |-> FALSE,     \* the thread still holds ready_tx
      failed_at        |-> "none",    \* the step that failed, or panic
      stream_playing   |-> FALSE,     \* stream.play() returned Ok, stream not dropped
      ret              |-> "None",    \* what the call returned
      returns          |-> <<>> ]     \* the returns of all calls so far

\* the setup step after a successful one
NextStep(step, resample) ==
    IF step = "device" THEN "config"
    ELSE IF step = "config" THEN (IF resample THEN "resampler" ELSE "build")
    ELSE IF step = "resampler" THEN "build"
    ELSE IF step = "build" THEN "play"
    ELSE "signal"

\* variant: a thread that ended without a message counts as ready
NewReturn_DisconnectedOk(msg) == IF msg = "err" THEN "AudioInitFailed" ELSE "Ok"

\* the match on ready_rx.recv(): Ok(Ok(())) goes on to build the capture,
\* Ok(Err(e)) and Err(e) return AudioInitFailed
NewReturn(msg) == IF msg = "ok" THEN "Ok" ELSE "AudioInitFailed"

\* AudioCapture::new up to the spawn
NewBegin ==
    /\ cn.caller_pc \in { "idle", "returned" }
    /\ cn.thread_pc \in { "none", "ended" }
    /\ cn.calls < MaxNewCalls
    /\ cn' = [ cn EXCEPT !.calls = @ + 1,
                         !.caller_pc = "waiting",
                         !.thread_pc = "device",
                         !.needs_resampling = FALSE,
                         !.ready_msg = "none",
                         !.ready_tx = TRUE,
                         !.failed_at = "none",
                         !.stream_playing = FALSE,
                         !.ret = "None" ]
    /\ UNCHANGED << avars, tvars, svars, xvars, pvars, dvars, mvars, eng, sm, rd, hk, va >>

\* one setup step of the device thread; on a failure it sends Err and returns
ThreadSetup(ok, resample) ==
    /\ \E k \in 1..Len(SetupSteps) : cn.thread_pc = SetupSteps[k]
    /\ cn.thread_pc = "config" \/ resample = cn.needs_resampling
    /\ IF ok
       THEN cn' = [ cn EXCEPT
                !.thread_pc = NextStep(cn.thread_pc, resample),
                !.needs_resampling = resample,
                !.stream_playing = (cn.thread_pc = "play") ]
       ELSE /\ resample = cn.needs_resampling
            /\ cn' = [ cn EXCEPT !.thread_pc = "ended",
                                 !.failed_at = cn.thread_pc,
                                 !.ready_msg = "err",
                                 !.ready_tx = FALSE ]
    /\ UNCHANGED << avars, tvars, svars, xvars, pvars, dvars, mvars, eng, sm, rd, hk, va >>

\* the thread unwinds during setup: ready_tx is dropped without a message
ThreadPanic ==
    /\ \E k \in 1..Len(SetupSteps) : cn.thread_pc = SetupSteps[k]
    /\ cn' = [ cn EXCEPT !.thread_pc = "ended",
                         !.failed_at = "panic",
                         !.ready_tx = FALSE ]
    /\ UNCHANGED << avars, tvars, svars, xvars, pvars, dvars, mvars, eng, sm, rd, hk, va >>

\* `ready_tx.send(Ok(()))`, then the thread parks in stop_rx.recv()
ThreadReady ==
    /\ cn.thread_pc = "signal"
    /\ cn' = [ cn EXCEPT !.thread_pc = "parked",
                         !.ready_msg = "ok" ]
    /\ UNCHANGED << avars, tvars, svars, xvars, pvars, dvars, mvars, eng, sm, rd, hk, va >>

\* `ready_rx.recv()` returns a message, or an error once the channel is
\* empty and its sender dropped; AudioCapture::new returns
NewRecv ==
    /\ cn.caller_pc = "waiting"
    /\ cn.ready_msg # "none" \/ ~cn.ready_tx
    /\ cn' = [ cn EXCEPT !.caller_pc = "returned",
                         !.ready_msg = "none",
                         !.ret = NewReturn(cn.ready_msg),
                         !.returns = Append(@, NewReturn(cn.ready_msg)) ]
    /\ UNCHANGED << avars, tvars, svars, xvars, pvars, dvars, mvars, eng, sm, rd, hk, va >>

\* Drop for AudioThread: the stop message ends the parked thread, which
\* drops the stream, and the join returns
DropCapture ==
    /\ cn.caller_pc = "returned"
    /\ cn.thread_pc = "parked"
    /\ cn' = [ cn EXCEPT !.thread_pc = "ended",
                         !.ready_tx = FALSE,
                         !.stream_playing = FALSE ]
    /\ UNCHANGED << avars, tvars, svars, xvars, pvars, dvars, mvars, eng, sm, rd, hk, va >>

NextCaptureNew ==
    \/ NewBegin
    \/ \E ok \in BOOLEAN : \E resample \in BOOLEAN : ThreadSetup(ok, resample)
    \/ ThreadPanic
    \/ ThreadReady
    \/ NewRecv
    \/ DropCapture

DeviceThreadStep ==
    \/ \E ok \in BOOLEAN : \E resample \in BOOLEAN : ThreadSetup(ok, resample)
    \/ ThreadReady

\* ---------------------------------------------------------------------------
\* AudioProcessor::initialize as a public operation, with the one engine
\* behind typeswift_init / typeswift_cleanup that every SwiftTranscriber
\* shares.
\* ---------------------------------------------------------------------------

\* a new processor in a process whose engine was never initialized
ENew ==
    [ engine_ready |-> FALSE,    \* the engine is in its initialized state
      capture      |-> FALSE,    \* audio_capture is Some
      transcriber  |-> FALSE,    \* transcriber is Some
      outcomes     |-> <<>> ]    \* the outcomes of the initialize calls so far

\* typeswift_init: a return of 0 leaves the engine initialized
EngineInit(ready, ok) == IF ok THEN TRUE ELSE ready

\* typeswift_cleanup: the engine is no longer initialized
EngineCleanup(ready) == FALSE

\* the SwiftTranscriber values dropped by one initialize call that had
\* `initialized` set: the new one when AudioCapture::new failed, the previous
\* one when the new one is assigned over it
DropsInitialized(o, transcriber) ==
    o = "audio_failed" \/ (o = "ok" /\ transcriber)

\* AudioProcessor::initialize, with its outcome
InitializeCall(o) ==
    /\ Len(eng.outcomes) < MaxInitCalls
    /\ LET inited == EngineInit(eng.engine_ready, o # "model_failed")
           f == Initialize(o, eng.capture, eng.transcriber)
       IN eng' = [ engine_ready |->
                      IF DropsInitialized(o, eng.transcriber)
                      THEN EngineCleanup(inited) ELSE inited,
                   capture      |-> f.capture,
                   transcriber  |-> f.transcriber,
                   outcomes     |-> Append(eng.outcomes, o) ]
    /\ UNCHANGED << avars, tvars, svars, xvars, pvars, dvars, mvars, cn, sm, rd, hk, va >>

NextEngine == \E o \in InitOutcomes : InitializeCall(o)

\* ---------------------------------------------------------------------------
\* StreamingManager (controller.rs): process_live_text types the part of a
\* live text that extends what was typed, reset clears both strings.
\* ---------------------------------------------------------------------------

\* the live texts the engine may return
LiveTexts == UNION { [1..n -> { "a", "b" }] : n \in 0..MaxLiveLen }

SMNew ==
    [ typed_text   |-> <<>>,
      pending_text |-> <<>>,
      queued       |-> <<>>,     \* the deltas queue_typing accepted since the reset
      refused      |-> 0 ]       \* the calls of queue_typing that returned Err

\* `new_full_text.starts_with(typed.as_str())`
StartsWith(text, prefix) ==
    Len(prefix) <= Len(text) /\ SubSeq(text, 1, Len(prefix)) = prefix

\* variant: every longer text is typed from the typed length on
Extends_LongerOnly(new_full_text, typed) == Len(new_full_text) > Len(typed)

\* the two nested conditions under which a delta is queued
Extends(new_full_text, typed) ==
    Len(new_full_text) > Len(typed) /\ StartsWith(new_full_text, typed)

\* `&new_full_text[typed.len()..]`
NewPart(new_full_text, typed) ==
    SubSeq(new_full_text, Len(typed) + 1, Len(new_full_text))

\* process_live_text; queue_ok is the result of queue_typing(new_part, false)
ProcessLiveText(new_full_text, queue_ok) ==
    /\ IF Extends(new_full_text, sm.typed_text)
       THEN IF queue_ok
            THEN sm' = [ sm EXCEPT
                     !.typed_text = new_full_text,
                     !.queued = Append(@, NewPart(new_full_text, sm.typed_text)) ]
            ELSE /\ sm.refused < MaxRefused
                 /\ sm' = [ sm EXCEPT !.refused = @ + 1 ]
       ELSE /\ queue_ok
            /\ IF Len(new_full_text) > Len(sm.typed_text)
               THEN sm' = [ sm EXCEPT !.pending_text = new_full_text ]
               ELSE sm' = sm
    /\ UNCHANGED << avars, tvars, svars, xvars, pvars, dvars, mvars, cn, eng, rd, hk, va >>

\* StreamingManager::reset
ResetStreaming ==
    /\ sm' = SMNew
    /\ UNCHANGED << avars, tvars, svars, xvars, pvars, dvars, mvars, cn, eng, rd, hk, va >>

NextLive ==
    \/ \E t \in LiveTexts : \E queue_ok \in BOOLEAN : ProcessLiveText(t, queue_ok)
    \/ ResetStreaming

\* ---------------------------------------------------------------------------
\* read_audio called from several handles (AudioCapture clones and
\* AudioReader values share one Arc<Mutex<consumer>>) while the callback
\* pushes.
\* ---------------------------------------------------------------------------

\* the handles that read: a capture clone and a reader
ReadHandles == { "clone", "reader" }

RNew ==
    [ ring     |-> <<>>,     \* the samples in the ring, numbered in push order
      pushed   |-> 0,        \* samples pushed into the ring so far
      pc       |-> [ h \in ReadHandles |-> "idle" ],   \* idle or reading
      samples  |-> [ h \in ReadHandles |-> <<>> ],     \* the call's local vector
      returned |-> <<>> ]    \* what the completed calls returned, in order

\* variant: the consumer is taken without the mutex
ConsumerFree_NoMutex(pc) == TRUE

\* `self.consumer.lock()` returns once no other call holds the mutex
ConsumerFree(pc) == \A h \in ReadHandles : pc[h] # "reading"

\* the producer's try_push of one sample, accepted while the ring has room
ReaderPush ==
    /\ rd.pushed < MaxReadSamples
    /\ TryPushOk(rd.ring)
    /\ rd' = [ rd EXCEPT !.pushed = @ + 1,
                         !.ring = TryPush(@, rd.pushed + 1) ]
    /\ UNCHANGED << avars, tvars, svars, xvars, pvars, dvars, mvars, cn, eng, sm, hk, va >>

\* read_audio: lock the consumer and start with an empty vector
ReadLock(h) ==
    /\ rd.pc[h] = "idle"
    /\ Len(rd.returned) + Cardinality({ g \in ReadHandles : rd.pc[g] = "reading" })
          < MaxReadCalls
    /\ ConsumerFree(rd.pc)
    /\ rd' = [ rd EXCEPT !.pc[h] = "reading",
                         !.samples[h] = <<>> ]
    /\ UNCHANGED << avars, tvars, svars, xvars, pvars, dvars, mvars, cn, eng, sm, hk, va >>

\* one iteration of the loop that pops a sample
ReadPop(h) ==
    /\ rd.pc[h] = "reading"
    /\ ReadContinues(rd.samples[h], rd.ring, ReadMaxSamples)
    /\ rd' = [ rd EXCEPT !.samples[h] = Append(@, Head(rd.ring)),
                         !.ring = Tail(@) ]
    /\ UNCHANGED << avars, tvars, svars, xvars, pvars, dvars, mvars, cn, eng, sm, hk, va >>

\* the loop ends, the guard is dropped and the vector returned
ReadReturn(h) ==
    /\ rd.pc[h] = "reading"
    /\ ~ReadContinues(rd.samples[h], rd.ring, ReadMaxSamples)
    /\ rd' = [ rd EXCEPT !.pc[h] = "idle",
                         !.samples[h] = <<>>,
                         !.returned = Append(@, rd.samples[h]) ]
    /\ UNCHANGED << avars, tvars, svars, xvars, pvars, dvars, mvars, cn, eng, sm, hk, va >>

NextReaders ==
    \/ ReaderPush
    \/ \E h \in ReadHandles : ReadLock(h)
    \/ \E h \in ReadHandles : ReadPop(h)
    \/ \E h \in ReadHandles : ReadReturn(h)

\* ---------------------------------------------------------------------------
\* HotkeyHandler::start_event_loop and its two handlers (input.rs).
\* ---------------------------------------------------------------------------

\* ids of the raw hotkey events the system delivers
HotkeyIds == { "k1", "k2" }

HNew ==
    [ started  |-> FALSE,     \* the event loop thread was spawned
      ptt      |-> "none",    \* push_to_talk_hotkey captured by the thread
      toggle   |-> "none",    \* toggle_hotkey captured by the thread
      active   |-> FALSE,     \* is_push_to_talk_active
      raw      |-> 0,         \* raw events handled so far
      emitted  |-> <<>> ]     \* HotkeyEvents the handlers returned, in order

\* variant: every Pressed of the push-to-talk key is reported
PressEmits_EveryPress(is_ptt, is_active) == is_ptt

\* handle_hotkey_press reports PushToTalkPressed
PressEmits(is_ptt, is_active) == is_ptt /\ ~is_active

\* handle_hotkey_release reports PushToTalkReleased
ReleaseEmits(is_ptt, is_active) == is_ptt /\ is_active

\* start_event_loop clones the registered hotkeys and spawns the thread
StartEventLoop(ptt, toggle) ==
    /\ ~hk.started
    /\ hk' = [ hk EXCEPT !.started = TRUE, !.ptt = ptt, !.toggle = toggle ]
    /\ UNCHANGED << avars, tvars, svars, xvars, pvars, dvars, mvars, cn, eng, sm, rd, va >>

\* HotKeyState::Pressed with this id
HandleHotkeyPress(hotkey_id) ==
    /\ hk.started
    /\ hk.raw < MaxRawEvents
    /\ hk' = IF PressEmits(hk.ptt = hotkey_id, hk.active)
                THEN [ hk EXCEPT !.raw = @ + 1,
                                 !.active = TRUE,
                                 !.emitted = Append(@, "PushToTalkPressed") ]
              ELSE IF hk.toggle = hotkey_id
                THEN [ hk EXCEPT !.raw = @ + 1,
                                 !.emitted = Append(@, "ToggleWindow") ]
              ELSE [ hk EXCEPT !.raw = @ + 1 ]
    /\ UNCHANGED << avars, tvars, svars, xvars, pvars, dvars, mvars, cn, eng, sm, rd, va >>

\* HotKeyState::Released with this id
HandleHotkeyRelease(hotkey_id) ==
    /\ hk.started
    /\ hk.raw < MaxRawEvents
    /\ hk' = IF ReleaseEmits(hk.ptt = hotkey_id, hk.active)
                THEN [ hk EXCEPT !.raw = @ + 1,
                                 !.active = FALSE,
                                 !.emitted = Append(@, "PushToTalkReleased") ]
              ELSE [ hk EXCEPT !.raw = @ + 1 ]
    /\ UNCHANGED << avars, tvars, svars, xvars, pvars, dvars, mvars, cn, eng, sm, rd, va >>

NextHotkeys ==
    \/ \E ptt \in HotkeyIds \cup { "none" }, toggle \in HotkeyIds \cup { "none" } :
          StartEventLoop(ptt, toggle)
    \/ \E id \in HotkeyIds : HandleHotkeyPress(id)
    \/ \E id \in HotkeyIds : HandleHotkeyRelease(id)

\* ---------------------------------------------------------------------------
\* VoicyApp (src/src/app.rs): press, release and the reset thread that
\* stop_recording spawns.
\* ---------------------------------------------------------------------------

VNew ==
    [ state            |-> "Idle",     \* AppState
      streaming_state  |-> "Idle",     \* StreamingState
      transcription    |-> "",         \* transcription_text
      ui_update_needed |-> FALSE,
      recordings       |-> 0,          \* recordings started so far
      release_handled  |-> FALSE,      \* stop_recording ran for the current recording
      resets           |-> 0 ]         \* spawned reset threads still asleep

\* start_recording goes on past its first test
VoicyCanStart(state) == state = "Idle"

\* stop_recording goes on past its first test
VoicyCanStop(state) == state = "Recording"

\* handle_hotkey_press: start_recording when Idle, nothing otherwise
VoicyPress ==
    /\ va.recordings < MaxRecordings
    /\ va' = IF VoicyCanStart(va.state)
                THEN [ va EXCEPT !.state = "Recording",
                                 !.streaming_state = "Loading",
                                 !.transcription = "",
                                 !.ui_update_needed = TRUE,
                                 !.recordings = @ + 1,
                                 !.release_handled = FALSE ]
                ELSE va
    /\ va' # va
    /\ UNCHANGED << avars, tvars, svars, xvars, pvars, dvars, mvars, cn, eng, sm, rd, hk >>

\* handle_hotkey_release: stop_recording when Recording, which sets the
\* streaming state and spawns the thread that resets after a second
VoicyRelease ==
    /\ va.resets < MaxResets
    /\ VoicyCanStop(va.state)
    /\ va' = [ va EXCEPT !.streaming_state = "Processing",
                         !.ui_update_needed = (@ \/ va.streaming_state # "Processing"),
                         !.release_handled = TRUE,
                         !.resets = @ + 1 ]
    /\ UNCHANGED << avars, tvars, svars, xvars, pvars, dvars, mvars, cn, eng, sm, rd, hk >>

\* a reset thread wakes up and writes Idle to both states
VoicyReset ==
    /\ va.resets > 0
    /\ va' = [ va EXCEPT !.state = "Idle",
                         !.streaming_state = "Idle",
                         !.resets = @ - 1 ]
    /\ UNCHANGED << avars, tvars, svars, xvars, pvars, dvars, mvars, cn, eng, sm, rd, hk >>

\* needs_ui_update reads and clears the flag
NeedsUiUpdate ==
    /\ va.ui_update_needed
    /\ va' = [ va EXCEPT !.ui_update_needed = FALSE ]
    /\ UNCHANGED << avars, tvars, svars, xvars, pvars, dvars, mvars, cn, eng, sm, rd, hk >>

\* set_transcription stores the text and asks for a redraw
VoicySetTranscription(text) ==
    /\ va' = [ va EXCEPT !.transcription = text, !.ui_update_needed = TRUE ]
    /\ va' # va
    /\ UNCHANGED << avars, tvars, svars, xvars, pvars, dvars, mvars, cn, eng, sm, rd, hk >>

NextVoicy ==
    \/ VoicyPress
    \/ \E text \in { "a", "ab" } : VoicySetTranscription(text)
    \/ VoicyRelease
    \/ VoicyReset
    \/ NeedsUiUpdate

InitApp ==
    /\ TInit
    /\ needs_resampling \in BOOLEAN
    /\ init_outcome \in InitOutcomes
    /\ has_capture = Initialize(init_outcome, FALSE, FALSE).capture
    /\ has_transcriber = Initialize(init_outcome, FALSE, FALSE).transcriber
    /\ enable_typing \in BOOLEAN
    /\ add_space_between_utterances \in BOOLEAN
    /\ is_recording = FALSE
    /\ ring = <<>>
    /\ overflow_count = 0
    /\ input_buffer = <<>>
    /\ cb_pc = "idle"
    /\ cb_seen = FALSE
    /\ cb_out = <<>>
    /\ delivered = 0
    /\ audio_buffer = <<>>
    /\ chunk = <<>>
    /\ t_buffer = <<>>
    /\ engine_calls = 0
    /\ engine_audio = <<>>
    /\ engine_session = 0
    /\ recording_state = "Idle"
    /\ transcription = <<>>
    /\ ctl_pc = "idle"
    /\ final_text = <<>>
    /\ ctl_queued = <<>>
    /\ session = 0
    /\ pushed = <<>>
    /\ popped = <<>>
    /\ drained_last = <<>>
    /\ stop_mark = 0
    /\ offered = <<>>
    /\ raced = FALSE
    /\ engine_result = [ok |-> TRUE, text |-> <<>>]
    /\ typed_text = <<>>
    /\ pending_text = <<>>
    /\ last_event = "None"
    /\ stop_result = "None"
    /\ heard = <<>>
    /\ read_ring = <<>>
    /\ read_raced = FALSE
    \* AppStateManager::new
    /\ is_window_visible = FALSE
    /\ is_preferences_visible = FALSE
    /\ listeners = 0
    /\ notified = 0
    /\ observed = [state |-> "None", text |-> <<>>]
    /\ t_last = NoCall
    \* the Preferences window starts from the same loaded Config
    /\ prefs_enable_typing = enable_typing
    /\ streams_created = (IF has_capture THEN 1 ELSE 0)
    /\ streams_dropped = 0

Init ==
    /\ InitApp
    /\ sp = SNew(FALSE)
    /\ cn = CNew
    /\ eng = ENew
    /\ sm = SMNew
    /\ rd = RNew
    /\ hk = HNew
    /\ va = VNew

Callback == \E n \in 1..MaxCbLen : \E amps \in [1..n -> Amps] : CallbackBegin(n, amps)

Next ==
    \/ Callback
    \/ CallbackPush
    \/ Pressed
    \/ Released
    \/ DrainPop
    \/ DrainChunkDone
    \/ DrainFinish
    \/ ReleaseEnd

Spec == Init /\ [][Next]_vars

NextStreaming ==
    \/ StreamCallback
    \/ \E init_ok \in BOOLEAN : \E session_ok \in BOOLEAN :
          StreamStart(init_ok, session_ok)
    \/ PollCheck
    \/ PollRead
    \/ \E res \in StreamResults : \E slept \in 1..ProcessIntervalTicks :
          PollProcess(res, slept)
    \/ GetLiveTranscription
    \/ StopSignal
    \/ StopJoin
    \/ StopCapture
    \/ \E ok \in BOOLEAN : \E final \in Texts : StopEndSession(ok, final)
    \/ StopDrain
    \/ DropProcessor

InitStreaming ==
    /\ Init
    /\ ~needs_resampling
    /\ init_outcome = "ok"
    /\ enable_typing
    /\ add_space_between_utterances

SpecStreaming == InitStreaming /\ [][NextStreaming]_vars

\* the StreamingManager alone
SpecLive == InitStreaming /\ [][NextLive]_vars

\* several handles reading one ring
SpecReaders == InitStreaming /\ [][NextReaders]_vars

\* the hotkey event loop alone
SpecHotkeys == InitStreaming /\ [][NextHotkeys]_vars

\* VoicyApp alone
SpecVoicy == InitStreaming /\ [][NextVoicy]_vars

\* AudioProcessor::initialize alone
SpecEngine == InitStreaming /\ [][NextEngine]_vars

\* AudioCapture::new alone; the device thread and the waiting caller run
\* whenever they can
SpecCaptureNew ==
    /\ InitStreaming
    /\ [][NextCaptureNew]_vars
    /\ WF_vars(DeviceThreadStep)
    /\ WF_vars(NewRecv)

InitPolling ==
    /\ InitApp
    /\ sp \in { SNew(lg) : lg \in BOOLEAN }
    /\ cn = CNew
    /\ eng = ENew
    /\ sm = SMNew
    /\ rd = RNew
    /\ hk = HNew
    /\ va = VNew
    /\ ~needs_resampling
    /\ init_outcome = "ok"
    /\ enable_typing
    /\ add_space_between_utterances

SpecPolling == InitPolling /\ [][NextStreaming]_vars

InitTyping ==
    /\ Init
    /\ ~needs_resampling
    /\ init_outcome = "model_failed"
    /\ enable_typing
    /\ add_space_between_utterances

NextTyping ==
    \/ \E h \in Handles : \E c \in Handles : CloneHandle(h, c)
    \/ \E h \in Handles : \E text \in Texts : \E add_space \in BOOLEAN :
          /\ IsEmptyOperation(text, add_space) \/ next_op_id <= MaxOps
          /\ QueueBegin(h, text, add_space)
    \/ \E h \in Handles : QueueSend(h)
    \/ \E h \in Handles : DropHandle(h)
    \/ \E h \in Handles : JoinWorker(h)
    \/ \E enigo_ok \in BOOLEAN : WorkerRecv(enigo_ok)
    \/ \E text_ok \in BOOLEAN : WorkerAttempt(text_ok)

SpecTyping == InitTyping /\ [][NextTyping]_vars

\* the worker fed by the owner alone with more commands than the warning
\* threshold
WorkerOps == MAX_CONSECUTIVE_FAILURES + 1

NextWorker ==
    \/ /\ next_op_id <= WorkerOps
       /\ QueueBegin("owner", << "a" >>, FALSE)
    \/ QueueSend("owner")
    \/ \E enigo_ok \in BOOLEAN : WorkerRecv(enigo_ok)
    \/ \E text_ok \in BOOLEAN : WorkerAttempt(text_ok)

SpecWorker == InitTyping /\ [][NextWorker]_vars

\* the owner and one clone, each queueing one text, up to the owner's drop;
\* the worker thread and the owner's join run whenever they can
ShutdownHandles == { "owner", "c1" }

WorkerStep ==
    \/ \E enigo_ok \in BOOLEAN : WorkerRecv(enigo_ok)
    \/ \E text_ok \in BOOLEAN : WorkerAttempt(text_ok)

NextShutdown ==
    \/ CloneHandle("owner", "c1")
    \/ \E h \in ShutdownHandles :
          /\ next_op_id <= MaxOps
          /\ QueueBegin(h, << "a" >>, FALSE)
    \/ \E h \in ShutdownHandles : QueueSend(h)
    \/ \E h \in ShutdownHandles : DropHandle(h)
    \/ JoinWorker("owner")
    \/ WorkerStep

SpecShutdown ==
    /\ InitTyping
    /\ [][NextShutdown]_vars
    /\ WF_vars(WorkerStep)
    /\ WF_vars(JoinWorker("owner"))

\* the controller with the Preferences window open beside it
InitConfig ==
    /\ Init
    /\ ~needs_resampling
    /\ init_outcome = "ok"
    /\ enable_typing
    /\ add_space_between_utterances

NextConfig ==
    \/ Next
    \/ TogglePrefsTyping

SpecConfig == InitConfig /\ [][NextConfig]_vars

\* the controller thread runs a handler it has entered to its end
ControllerStep ==
    \/ DrainPop
    \/ DrainChunkDone
    \/ DrainFinish
    \/ ReleaseEnd

InitRelease ==
    /\ Init
    /\ ~needs_resampling
    /\ init_outcome = "model_failed"
    /\ enable_typing
    /\ add_space_between_utterances

SpecRelease == InitRelease /\ [][Next]_vars /\ WF_vars(ControllerStep)

\* the AppStateManager alone, driven through its public methods
InitState ==
    /\ Init
    /\ ~needs_resampling
    /\ init_outcome = "model_failed"
    /\ enable_typing
    /\ add_space_between_utterances

NextState ==
    \/ \E new \in RecordingStates : SetRecordingStateCall(new)
    \/ \E text \in Texts : SetTranscription(text)
    \/ \E text \in Texts : AppendTranscription(text)
    \/ ClearTranscription
    \/ \E visible \in BOOLEAN : SetWindowVisible(visible)
    \/ \E visible \in BOOLEAN : SetPreferencesVisible(visible)
    \/ AddListener

SpecState == InitState /\ [][NextState]_vars

\* the Transcriber alone, driven through its public methods
InitTranscriber ==
    /\ Init
    /\ ~needs_resampling
    /\ init_outcome = "ok"
    /\ enable_typing
    /\ add_space_between_utterances

NextTranscriber ==
    \/ TStartSession
    \/ \E batch \in Batches : TProcessAudio(batch)
    \/ \E res \in EngineResults : TEndSession(res)

SpecTranscriber == InitTranscriber /\ [][NextTranscriber]_vars

(* ============================== claims ================================ *)
IsPrefix(p, q) == Len(p) <= Len(q) /\ SubSeq(q, 1, Len(p)) = p

NoDuplicates(q) == \A i, j \in 1..Len(q) : q[i] = q[j] => i = j

\* C1: whatever the interleaving of the callback's try_push with read_audio's
\* try_pop, the samples read so far are a prefix of the samples successfully
\* pushed: none duplicated, none reordered, never more read than pushed.
C1_ReadsArePrefixOfPushes ==
    /\ IsPrefix(popped, pushed)
    /\ NoDuplicates(popped)
    /\ Len(popped) <= Len(pushed)

\* a read has returned samples while a callback invocation is still pushing
C1_Witness ==
    /\ ctl_pc = "drain"
    /\ cb_pc = "push"
    /\ Len(popped) >= 2
    /\ raced

\* C2: every change of RecordingState made by the controller is Idle->Recording,
\* Recording->Processing or Processing->Idle.
C2_LinearCycle ==
    [][recording_state' # recording_state =>
         << recording_state, recording_state' >> \in
            { << "Idle", "Recording" >>, << "Recording", "Processing" >>,
              << "Processing", "Idle" >> }]_vars

\* the cycle has been completed twice
C2_Witness ==
    /\ recording_state = "Idle"
    /\ session = 2
    /\ Len(ctl_queued) = 2

\* C3 (as claimed): while a session records, the ring and the accumulation
\* buffers hold only samples captured in that session, and every audio handed to the
\* engine consists of samples of the session that submitted it.
C3_NoLeakAcrossSessions ==
    /\ is_recording =>
         /\ \A i \in 1..Len(ring) : ring[i].sess = { session }
         /\ \A i \in 1..Len(audio_buffer) : audio_buffer[i].sess = { session }
         /\ \A i \in 1..Len(t_buffer) : t_buffer[i].sess = { session }
    /\ \A i \in 1..Len(engine_audio) : engine_audio[i].sess = { engine_session }

\* a try_push of the running callback invocation
PushStep == cb_pc = "push" /\ cb_out' # cb_out

\* C8: a push onto a full ring discards the sample, adds exactly one to the
\* overflow counter and leaves the ring as it was, and a push is never blocked;
\* if more samples than the capacity were offered during a recording and none
\* was pushed while stop_recording drained, the drained audio is exactly the
\* RingCap earliest samples and the overflow counter is positive.
C8_DropNewestCounted ==
    /\ [][PushStep /\ Len(ring) = RingCap =>
            /\ ring' = ring
            /\ overflow_count' = overflow_count + 1
            /\ pushed' = pushed]_vars
    /\ [](cb_pc = "push" => ENABLED CallbackPush)
    /\ [](ctl_pc = "finish" /\ has_capture /\ Len(offered) > RingCap /\ ~raced =>
            /\ Len(drained_last) = RingCap
            /\ Ids(drained_last) = SubSeq(offered, 1, RingCap)
            /\ overflow_count > 0)

\* a recording that was offered more than RingCap fresh samples has been drained
C8_Witness ==
    /\ ctl_pc = "finish"
    /\ has_capture
    /\ ~raced
    /\ Len(offered) > RingCap
    /\ \A i \in 1..Len(offered) : offered[i].sess = { session }
    /\ overflow_count > 0

\* the first step of a callback invocation
BeginStep == cb_pc = "idle" /\ delivered' # delivered

\* C9: an invocation that observes recording == false leaves the ring, the
\* resampler input and the overflow counter alone; the callback pushes (or
\* counts a drop, or feeds the resampler) only after observing true; and
\* start_recording/stop_recording change nothing of the capture but the flag.
C9_FlagGatesForwarding ==
    [][/\ BeginStep /\ ~is_recording =>
            /\ UNCHANGED << ring, input_buffer, overflow_count, pushed, cb_out >>
            /\ cb_pc' = "idle"
       /\ PushStep => cb_seen
       /\ BeginStep /\ input_buffer' # input_buffer => is_recording
       /\ is_recording' # is_recording /\ has_capture =>
            UNCHANGED << ring, input_buffer, overflow_count, cb_pc, cb_out,
                         pushed, popped >>]_vars

\* samples were forwarded during a session and a later invocation saw the flag off
C9_Witness ==
    /\ pushed # <<>>
    /\ cb_pc = "idle"
    /\ ~cb_seen
    /\ ~is_recording
    /\ delivered > Len(pushed) + overflow_count + Len(input_buffer)

\* the identities of the samples the running stop_recording has read
DrainedNow == SubSeq(popped, stop_mark + 1, Len(popped))

\* C10 (as claimed): a batch stop that drained audio made exactly one
\* transcribe call, the engine received exactly the drained samples, and the
\* returned text is the trimmed engine result.
C10_EngineGetsDrainedAudio ==
    ctl_pc = "finish" /\ has_capture /\ drained_last # <<>> =>
        /\ engine_calls = 1
        /\ Ids(drained_last) = DrainedNow
        /\ engine_audio = drained_last
        /\ engine_result.ok => final_text = Trim(engine_result.text)

\* C10 (amended): ... the engine receives the drained samples, all of them, in
\* ring order, each multiplied by 0.99/peak when the peak of the drained audio
\* exceeds 1.5 and unchanged otherwise.
C10_EngineGetsNormalizedDrainedAudio ==
    ctl_pc = "finish" /\ has_capture /\ drained_last # <<>> =>
        /\ engine_calls = 1
        /\ engine_session = session
        /\ Ids(drained_last) = DrainedNow
        /\ Len(engine_audio) = Len(drained_last)
        /\ \A i \in 1..Len(drained_last) :
              /\ engine_audio[i].src = drained_last[i].src
              /\ engine_audio[i].amp =
                    IF MaxAmp(drained_last) > NormalizeThreshold
                    THEN (drained_last[i].amp * NormalizeTarget) \div MaxAmp(drained_last)
                    ELSE drained_last[i].amp
        /\ engine_result.ok => final_text = Trim(engine_result.text)
        /\ ~engine_result.ok => final_text = <<>>

\* several chunks were drained, with a loud and a quiet sample, and transcribed
C10_Witness ==
    /\ ctl_pc = "finish"
    /\ has_capture
    /\ Len(drained_last) > DrainChunk
    /\ MaxAmp(drained_last) > NormalizeThreshold
    /\ \E i \in 1..Len(drained_last) : drained_last[i].amp < NormalizeThreshold
    /\ engine_result.ok
    /\ final_text # engine_result.text

(* ------------------------- TypingQueue claims -------------------------- *)
\* position of a command in the order the channel received the commands
EnqPos(op) == CHOOSE i \in 1..Len(enq) : enq[i] = op

\* the enigo.text(text) calls made for one command, in order
TextCalls(op) == SelectSeq(inj, LAMBDA e : e.op = op /\ e.kind = "text")

\* the backoff sleeps made for one command, in order
SleepCalls(op) == SelectSeq(sleeps, LAMBDA e : e.op = op)

\* C4: the worker takes the commands in the order they entered the channel and
\* types one command at a time: all injection calls of a command precede all
\* injection calls of every command enqueued after it.
C4_FifoOneAtATime ==
    /\ IsPrefix(consumed, enq)
    /\ \A i, j \in 1..Len(inj) :
          i < j => EnqPos(inj[i].op) <= EnqPos(inj[j].op)
    /\ worker_pc = "typing" => w_cmd.op_id = consumed[Len(consumed)]

\* two commands entered the channel against their op_id order, both were
\* injected and the first one needed a retry
C4_Witness ==
    /\ enq = << 2, 1 >>
    /\ \E i \in 1..Len(inj) : inj[i].op = 2 /\ inj[i].attempt >= 1
    /\ \E i \in 1..Len(inj) : inj[i].op = 1

\* C5 (as claimed): no command is received twice, and once the worker has
\* stopped every command queue_typing accepted has been received by it.
C5_AcceptedConsumedExactlyOnce ==
    /\ NoDuplicates(consumed)
    /\ worker_pc = "exited" => \A op \in accepted : \E i \in 1..Len(consumed) : consumed[i] = op

\* C6: a non-empty text is attempted at most 3 times; when every attempt fails
\* there are exactly 3 attempts, separated by sleeps of 10 ms then 20 ms, and
\* type_with_retry reports failure; an attempt that succeeds is the last one
\* and type_with_retry reports success.
C6_ThreeAttemptsThenGiveUp ==
    /\ \A op \in 1..MaxOps :
          LET t == TextCalls(op) IN
          /\ Len(t) <= 3
          /\ \A k \in 1..Len(t) : t[k].attempt = k - 1
          /\ \A k \in 1..Len(t) : t[k].ok => k = Len(t)
    /\ \A d \in 1..Len(done) :
          LET t == TextCalls(done[d].op)
              z == SleepCalls(done[d].op)
          IN t # <<>> =>
                /\ done[d].success = t[Len(t)].ok
                /\ ~done[d].success =>
                      /\ Len(t) = 3
                      /\ Len(z) = 2
                      /\ z[1].ms = 10
                      /\ z[2].ms = 20
                /\ Len(z) = Len(t) - 1
                /\ \A k \in 1..(Len(z) - 1) : z[k].ms < z[k + 1].ms

\* one command failed on all its attempts, another succeeded on its second
C6_Witness ==
    /\ Len(done) = 2
    /\ ~done[1].success
    /\ Len(TextCalls(done[1].op)) = 3
    /\ done[2].success
    /\ Len(TextCalls(done[2].op)) = 2

\* C7: Shutdown is sent and the worker joined by the owner only, at most once;
\* dropping a clone changes neither the channel nor the worker, and the worker
\* stops only after the owner's Shutdown.
C7_OnlyOwnerShutsDown ==
    /\ [](/\ shutdown_by \in { <<>>, << "owner" >> }
          /\ joined_by \in { <<>>, << "owner" >> }
          /\ Len(SelectSeq(chan, LAMBDA c : c.kind = "Shutdown")) <= 1
          /\ worker_pc = "exited" => shutdown_by = << "owner" >>)
    /\ [][\A c \in Handles \ { "owner" } :
            h_pc[c] = "live" /\ h_pc'[c] \notin { "live", "sending" } =>
               /\ h_pc'[c] = "dropped"
               /\ UNCHANGED << chan, worker_pc, shutdown_by, joined_by >>]_vars

\* both clones were dropped, the owner lives on and the worker still types
C7_Witness ==
    /\ h_pc["c1"] = "dropped"
    /\ h_pc["c2"] = "dropped"
    /\ h_pc["owner"] = "live"
    /\ worker_pc = "typing"
    /\ enq # <<>>

(* -------------------- claims on the batch pipeline --------------------- *)
\* C11: a batch stop_recording that found nothing to drain (the processor has
\* no capture, or no sample was offered to the ring for this recording and none
\* was pushed while it drained) returns Ok with the empty string and makes no
\* transcribe call.
C11_EmptyStopSkipsEngine ==
    ctl_pc = "finish" /\ (~has_capture \/ (offered = <<>> /\ ~raced)) =>
        /\ stop_result = "Ok"
        /\ final_text = <<>>
        /\ drained_last = <<>>
        /\ engine_calls = 0

\* an initialised processor finished a second recording in which the device
\* delivered nothing while the flag was on
C11_Witness ==
    /\ ctl_pc = "finish"
    /\ has_capture
    /\ session = 2
    /\ delivered > 0
    /\ offered = <<>>
    /\ ~raced
    /\ stop_result = "Ok"

\* C12: can_start_recording is true exactly in Idle, and a PushToTalkPressed
\* handled in another state only logs: recording state, transcription,
\* streaming-typing state and the AudioProcessor stay as they were.
C12_PressedOutsideIdleIsNoOp ==
    /\ [](\A st \in RecordingStates : CanStartRecording(st) <=> st = "Idle")
    /\ [][Pressed /\ recording_state # "Idle" =>
            /\ last_event' = "PressedIgnored"
            /\ UNCHANGED << recording_state, transcription, typed_text,
                            pending_text, is_recording, has_capture,
                            has_transcriber, audio_buffer, t_buffer, chunk, ring,
                            input_buffer, overflow_count, session, ctl_pc >>]_vars

\* a press was ignored while a recording with audio in the ring was running
C12_Witness ==
    /\ last_event = "PressedIgnored"
    /\ recording_state = "Recording"
    /\ is_recording
    /\ ring # <<>>

\* C13: can_stop_recording is true exactly in Recording, and a
\* PushToTalkReleased handled in another state only logs: the state is
\* unchanged, stop_recording is not entered and nothing is queued for typing.
C13_ReleasedOutsideRecordingIsNoOp ==
    /\ [](\A st \in RecordingStates : CanStopRecording(st) <=> st = "Recording")
    /\ [][Released /\ recording_state # "Recording" =>
            /\ last_event' = "ReleasedIgnored"
            /\ UNCHANGED << recording_state, ctl_pc, stop_result, is_recording,
                            audio_buffer, chunk, ring, popped, t_buffer,
                            engine_calls, final_text, ctl_queued >>]_vars

\* a release was ignored in Idle after a complete recording cycle
C13_Witness ==
    /\ last_event = "ReleasedIgnored"
    /\ recording_state = "Idle"
    /\ has_capture
    /\ session >= 1
    /\ ctl_queued # <<>>

\* C14: the state machine itself rejects out-of-cycle transitions: a call of
\* set_recording_state that would move Processing->Recording, Idle->Processing
\* or Recording->Idle leaves the state unchanged.
C14_OutOfCycleRejected ==
    [][\A new \in RecordingStates :
          SetRecordingStateCall(new) /\
          << recording_state, new >> \in
             { << "Processing", "Recording" >>, << "Idle", "Processing" >>,
               << "Recording", "Idle" >> }
          => recording_state' = recording_state]_vars

\* C15: audio_capture and transcriber are set together or not at all: a failed
\* initialize (model or audio step) leaves both as they were, and they change
\* only in a call whose two steps both succeeded.
C15_InitializeAllOrNothing ==
    /\ [](has_capture <=> has_transcriber)
    /\ [](init_outcome # "ok" => ~has_capture /\ ~has_transcriber)
    /\ [][has_capture' # has_capture \/ has_transcriber' # has_transcriber =>
            /\ init_outcome' = "ok"
            /\ has_capture'
            /\ has_transcriber']_vars
    /\ [][init_outcome' # "ok" =>
            UNCHANGED << has_capture, has_transcriber, is_recording, session >>]_vars

\* a lazy initialize failed at its second step (AudioCapture::new) and the
\* processor stayed uninitialised
C15_Witness ==
    /\ last_event = "Pressed"
    /\ recording_state = "Recording"
    /\ init_outcome = "audio_failed"
    /\ ~has_capture
    /\ ~has_transcriber

Min2(a, b) == IF a <= b THEN a ELSE b

\* a read_audio call returns its samples to stop_recording
ReadReturns == ctl_pc = "drain" /\ (audio_buffer' # audio_buffer \/ ctl_pc' = "finish")

Returned ==
    IF ctl_pc = "drain" THEN audio_buffer \o chunk
    ELSE IF ctl_pc = "finish" THEN drained_last
    ELSE <<>>

\* C19: on the direct-copy path the samples read are, value for value and in
\* order, the oldest samples the callback took while the flag was on, the ones
\* dropped on overflow left out.
C19_DirectPathIsIdentity ==
    ~needs_resampling =>
        /\ Len(Returned) <= Len(heard)
        /\ \A i \in 1..Len(Returned) :
              /\ Returned[i].src = << heard[i].k >>
              /\ Returned[i].amp = heard[i].amp

\* two samples of different value were read on the direct path after a third
\* was dropped on overflow
C19_Witness ==
    /\ ~needs_resampling
    /\ ctl_pc = "finish"
    /\ overflow_count > 0
    /\ Len(drained_last) = 2
    /\ drained_last[1].amp # drained_last[2].amp


(* ---------------------- claims on the Transcriber ---------------------- *)
\* C16: end_session always leaves the buffer empty, also when the engine
\* fails; the engine is called exactly once, with the taken audio, when that
\* audio is non-empty and not at all when it is empty (the result is then the
\* empty string); a successful call returns the trimmed text and a failed one
\* TranscriptionFailed.
C16_EndSessionTakesBuffer ==
    t_last.op = "end_session" =>
       /\ t_buffer = <<>>
       /\ IF t_last.before = <<>>
          THEN /\ t_last.calls = 0
               /\ t_last.ret = [ok |-> TRUE, text |-> <<>>, err |-> "None"]
          ELSE /\ t_last.calls = 1
               /\ t_last.audio = t_last.before
               /\ t_last.res.ok =>
                     t_last.ret = [ok |-> TRUE, text |-> Trim(t_last.res.text),
                                   err |-> "None"]
               /\ ~t_last.res.ok =>
                     /\ ~t_last.ret.ok
                     /\ t_last.ret.err = "TranscriptionFailed"

\* end_session took a non-empty buffer and the engine failed
C16_Witness ==
    /\ t_last.op = "end_session"
    /\ Len(t_last.before) >= 2
    /\ ~t_last.res.ok
    /\ t_buffer = <<>>

\* C17: process_audio appends exactly len(samples) values after the existing
\* content, in input order; when the batch's peak p exceeds 1.5 each appended
\* value is the sample times 0.99/p (the appended peak is 0.99), otherwise the
\* samples are appended unchanged.
C17_ProcessAudioAppendsNormalized ==
    t_last.op = "process_audio" =>
       LET b == t_last.before
           a == t_last.arg
           p == MaxAmp(a)
           out == SubSeq(t_buffer, Len(b) + 1, Len(t_buffer))
       IN /\ Len(t_buffer) = Len(b) + Len(a)
          /\ SubSeq(t_buffer, 1, Len(b)) = b
          /\ p > 15000 =>
                /\ \A i \in 1..Len(a) :
                      /\ Abs(out[i].amp * p - a[i].amp * 9900) < p
                      /\ Abs(a[i].amp) = p => Abs(out[i].amp) = 9900
                      /\ out[i].amp * a[i].amp >= 0
                /\ MaxAmp(out) = 9900
          /\ p <= 15000 => out = a

\* a batch with peak 2.0 and a quieter sample was appended to earlier content
C17_Witness ==
    /\ t_last.op = "process_audio"
    /\ t_last.before # <<>>
    /\ Len(t_last.arg) = 2
    /\ t_last.arg[1].amp = 5000
    /\ t_last.arg[2].amp = -20000
    /\ t_buffer[Len(t_buffer)].amp = -9900

(* --------------------- claims on the typing queue ---------------------- *)
\* C20: queue_typing("", false) returns Ok at once from every state, also
\* after the worker has shut down, and enqueues nothing, injects nothing and
\* leaves the worker, its queue and the failure counter unchanged.
C20_EmptyOperationIsNoOp ==
    /\ [](\A h \in Handles :
            h_pc[h] = "live" => ENABLED QueueBegin(h, <<>>, FALSE))
    /\ [][\A h \in Handles : QueueBegin(h, <<>>, FALSE) =>
            /\ q_noop'
            /\ UNCHANGED << chan, next_op_id, h_pc, h_cmd, worker_pc, w_cmd,
                            w_attempt, consecutive_failures, enq, accepted,
                            rejected, consumed, inj, sleeps, done >>]_vars

\* a clone made the empty call after the worker had exited
C20_Witness ==
    /\ q_noop
    /\ worker_pc = "exited"
    /\ h_pc["owner"] # "live"
    /\ h_pc["c1"] = "live"
    /\ consumed # <<>>

\* the injections of the leading space made for one operation
SpaceCalls(op) == SelectSeq(inj, LAMBDA e : e.op = op /\ e.kind = "space")

\* C30: for one Type command with add_space the leading space is injected
\* exactly once, before the first attempt at the text, however many retries
\* the text needs.
C30_LeadingSpaceOnce ==
    \A op \in 1..MaxOps :
       /\ Len(SpaceCalls(op)) <= 1
       /\ \A d \in { done[i] : i \in 1..Len(done) } :
             d.op = op /\ Len(TextCalls(op)) > 0 /\ Len(SpaceCalls(op)) > 0
             => Len(SpaceCalls(op)) = 1 /\ SpaceCalls(op)[1].attempt = 0

\* the worker has just finished an operation (or given up creating Enigo)
Finishes == done' # done \/ (consumed' # consumed /\ worker_pc' # "typing")

\* C21: repeated failures never halt the worker: it leaves its loop only on
\* Shutdown, so with a command queued it takes it whatever the failure count;
\* a failed operation adds one to the counter (and logs a warning from 5 on),
\* and a successful one resets the counter to 0.
C21_FailuresNeverHaltWorker ==
    /\ [](worker_pc = "exited" => shutdown_by # <<>>)
    /\ [](worker_pc = "recv" /\ chan # <<>> =>
            ENABLED (\E enigo_ok \in BOOLEAN : WorkerRecv(enigo_ok)))
    /\ [][Finishes =>
            IF done' # done /\ done'[Len(done')].success
            THEN consecutive_failures' = 0 /\ warnings' = warnings
            ELSE /\ consecutive_failures' = consecutive_failures + 1
                 /\ warnings' = IF consecutive_failures + 1 >= 5
                                THEN warnings + 1 ELSE warnings
                 /\ worker_pc' = "recv"]_vars

\* six commands: the first five failed, one of them for want of an Enigo,
\* the warning was logged, and the sixth was typed and reset the counter
C21_Witness ==
    /\ warnings = 1
    /\ consecutive_failures = 0
    /\ Len(consumed) = 6
    /\ Len(done) = 5
    /\ done[Len(done)].success
    /\ done[Len(done)].op = 6
    /\ worker_pc = "recv"

\* C22: injection failures never reach the caller of queue_typing: the call
\* fails exactly when the worker has dropped the receiver, nothing the worker
\* does changes what a call returned or any state of the controller, and an
\* operation whose retries are exhausted is dropped: it was accepted, it is
\* finished once and never attempted again.
C22_InjectionFailuresStayInWorker ==
    /\ [][\A h \in Handles : QueueSend(h) =>
            IF worker_pc = "exited"
            THEN rejected' # rejected /\ accepted' = accepted
            ELSE accepted' # accepted /\ rejected' = rejected]_vars
    /\ [][(\E b \in BOOLEAN : WorkerRecv(b) \/ WorkerAttempt(b)) =>
            UNCHANGED << avars, h_pc, h_cmd, accepted, rejected, next_op_id,
                         enq >>]_vars
    /\ [](\A i \in 1..Len(done) : ~done[i].success =>
            /\ done[i].op \in accepted
            /\ done[i].op \notin rejected
            /\ \A j \in 1..Len(done) : done[j].op = done[i].op => j = i
            /\ Len(TextCalls(done[i].op)) = 3
            /\ (worker_pc = "typing" => w_cmd.op_id # done[i].op))

\* an operation failed all its attempts after queue_typing had returned Ok,
\* and the worker went on to type the next one
C22_Witness ==
    /\ Len(done) = 2
    /\ ~done[1].success
    /\ done[2].success
    /\ done[1].op \in accepted
    /\ rejected = {}
    /\ \A h \in Handles : h_pc[h] \in { "live", "absent" }

(* ------------------ claims on configuration and streams ---------------- *)
\* C24: the typing decision of a release uses the value of enable_typing the
\* Preferences window has set by then, not a copy made when the controller
\* started: a non-empty final text is queued exactly when that value is true.
C24_TypingDecisionUsesCurrentConfig ==
    [][ReleaseEnd /\ final_text # <<>> =>
         (ctl_queued' # ctl_queued <=> prefs_enable_typing)]_vars

\* C25: once the AudioProcessor is initialized, start_recording and
\* stop_recording neither create a device stream nor tear one down: exactly
\* one stream has been created and it is alive.
C25_OneStreamForAllCycles ==
    /\ [](has_capture /\ has_transcriber =>
            streams_created = 1 /\ streams_dropped = 0)
    /\ [][has_capture /\ has_transcriber =>
            UNCHANGED << streams_created, streams_dropped, has_capture,
                         has_transcriber >>]_vars

\* two record/stop cycles have run on the stream created at start-up
C25_Witness ==
    /\ session = 2
    /\ recording_state = "Idle"
    /\ last_event = "Released"
    /\ streams_created = 1
    /\ streams_dropped = 0
    /\ Len(ctl_queued) = 2

\* C26: the callback and the reader never wait for each other: a try_push of
\* a running invocation can be taken while a caller is inside read_audio, and
\* read_audio can make its next step while an invocation is between pushes.
C26_ProducerConsumerNeverWait ==
    /\ cb_pc = "push" => ENABLED CallbackPush
    /\ ctl_pc = "drain" => ENABLED (DrainPop \/ DrainChunkDone \/ DrainFinish)
    /\ has_capture /\ cb_pc = "idle" /\ delivered < MaxDelivered =>
          ENABLED CallbackBegin(1, << 5000 >>)

\* an invocation is between two pushes while read_audio is between two pops
C26_Witness ==
    /\ cb_pc = "push"
    /\ ctl_pc = "drain"
    /\ chunk # <<>>
    /\ ring # <<>>
    /\ Len(cb_out) = 1
    /\ read_raced

(* -------------------- claims on the AppStateManager -------------------- *)
\* a call that changes the observable state
Mutation ==
    \/ \E new \in RecordingStates : new # recording_state /\ SetRecordingStateCall(new)
    \/ \E text \in Texts : SetTranscription(text)
    \/ \E text \in Texts : AppendTranscription(text)
    \/ ClearTranscription

\* C27: every mutation of the observable state (a set_recording_state that
\* changes the state, set_transcription, append_transcription,
\* clear_transcription) runs every registered listener exactly once before it
\* returns, after the new value is stored: the listeners see the new value.
C27_MutationNotifiesEachListenerOnce ==
    [][Mutation =>
         /\ notified' = notified + listeners
         /\ listeners > 0 =>
               observed' = [state |-> recording_state', text |-> transcription']
         /\ listeners = 0 => observed' = observed]_vars

\* two listeners have each run for a state change and for a new transcription
C27_Witness ==
    /\ listeners = 2
    /\ notified = 4
    /\ recording_state = "Recording"
    /\ transcription = << "a" >>
    /\ observed = [state |-> "Recording", text |-> << "a" >>]


\* ---------------------------------------------------------------------------
\* C23: streaming stop_recording performs its steps in the order signal, join,
\* clear the capture flag, end the session, drain the result channel, and then
\* returns the empty string.  Stated of every completed call: once
\* stop_recording has returned, the steps it took are exactly these five in
\* this order and it returned Ok with an empty string.  The `?` on
\* end_session returns early on an error: the drain is skipped, the receiver
\* is kept and the call returns Err.
\* ---------------------------------------------------------------------------
StopSteps == << "signal", "join", "capture", "end_session", "drain" >>

C23_StopStepsInOrderThenEmpty ==
    (sp.proc_pc = "idle" /\ sp.log # <<>>) =>
        /\ sp.log = StopSteps
        /\ sp.ret = "Ok"
        /\ sp.text = <<>>


\* ---------------------------------------------------------------------------
\* C28: the polling thread submits only newly accumulated audio.  The slices
\* handed to process_audio, put end to end, are exactly the processed prefix
\* of the accumulated samples (so they are contiguous, non-overlapping and in
\* capture order), no sample occurs twice, and every slice was submitted with
\* at least the minimum amount of new audio after at least the minimum
\* interval since the previous submission.
\* ---------------------------------------------------------------------------
RECURSIVE Submitted(_)
Submitted(subs) ==
    IF subs = <<>> THEN <<>> ELSE Head(subs).audio \o Submitted(Tail(subs))

C28_OnlyNewAudioSubmitted ==
    ~sp.legacy =>
        /\ Submitted(sp.submitted)
               = SubSeq(sp.accumulated_audio, 1, sp.total_samples_processed)
        /\ \A i, j \in 1..Len(sp.accumulated_audio) :
               i < j => sp.accumulated_audio[i] < sp.accumulated_audio[j]
        /\ \A k \in 1..Len(sp.submitted) :
               /\ Len(sp.submitted[k].audio) >= MinSamplesForProcessing
               /\ sp.submitted[k].waited >= ProcessIntervalTicks

C28_Witness ==
    /\ ~sp.legacy
    /\ Len(sp.submitted) >= 2
    /\ sp.total_samples_processed = Len(sp.accumulated_audio)


\* ---------------------------------------------------------------------------
\* C29: cancellation of the polling thread is cooperative and always
\* completes.  Once the stop signal has been sent or the stop sender has been
\* dropped, the thread's next stop check ends the thread; and whenever
\* stop_recording returns, the thread has terminated.  The optimized thread
\* leaves on `Ok(_) | Err(Disconnected)`; the earlier thread leaves only on
\* `try_recv().is_ok()` and keeps polling after its sender was dropped.
\* ---------------------------------------------------------------------------
C29_StopEndsThreadAtNextCheck ==
    [][ /\ ( /\ sp.poll_pc = "check"
             /\ sp.stop_chan \in { "sent", "disconnected" }
             /\ sp'.poll_pc # "check" ) => sp'.poll_pc = "exited"
        /\ ( sp.proc_pc # "idle" /\ sp'.proc_pc = "idle" ) =>
               sp'.poll_pc \in { "none", "exited" } ]_vars


\* ---------------------------------------------------------------------------
\* C31: every accepted release is eventually followed by Idle.  Once the
\* controller has stored Processing, the state becomes Idle again with the
\* controller back at its event loop and a press acceptable, also when
\* stop_recording returned an error and when the processor has no capture.
\* ---------------------------------------------------------------------------
C31_ProcessingLeadsToIdle ==
    (recording_state = "Processing") ~>
        ( /\ recording_state = "Idle"
          /\ ctl_pc = "idle"
          /\ CanStartRecording(recording_state) )

C31_Witness ==
    /\ recording_state = "Processing"
    /\ ctl_pc = "finish"
    /\ stop_result = "Err"


\* ---------------------------------------------------------------------------
\* C32: whenever the controller is between events, the capture's recording
\* flag is set if and only if RecordingState is Recording.  The press handler
\* stores Recording before audio.start_recording(), whose `self.initialize()?`
\* can fail: the handler then returns with the state Recording and no capture
\* running.
\* ---------------------------------------------------------------------------
C32_FlagMatchesRecordingState ==
    ctl_pc = "idle" => (is_recording <=> recording_state = "Recording")


\* ---------------------------------------------------------------------------
\* C33: in streaming mode no audio the polling thread has read is discarded:
\* when stop_recording is about to call end_session, every sample the thread
\* read from the ring has been handed to process_audio.  The thread leaves
\* its loop at the stop check without a last submission, so what it read
\* after its last submission is dropped with the thread.
\* ---------------------------------------------------------------------------
C33_AllReadAudioSubmitted ==
    (sp.proc_pc = "end" /\ ~sp.legacy) =>
        Submitted(sp.submitted) = sp.accumulated_audio


\* ---------------------------------------------------------------------------
\* C34: dropping the owning TypingQueue terminates.  When the worker takes
\* Shutdown no command is ahead of it in the channel and every command taken
\* before has been finished; once the owner has sent Shutdown its join
\* eventually returns; and after the join a queue_typing through a surviving
\* clone is answered with an error and leaves the channel as it was.
\* ---------------------------------------------------------------------------
C34_OwnerDropTerminates ==
    /\ [][worker_pc = "recv" /\ worker_pc' = "exited" =>
            /\ chan[1].kind = "Shutdown"
            /\ \A i \in 1..Len(enq) :
                  (\E j \in 1..Len(consumed) : consumed[j] = enq[i])
                  \/ (\E j \in 2..Len(chan) :
                         chan[j].kind = "Type" /\ chan[j].op_id = enq[i])]_vars
    /\ (shutdown_by # <<>>) ~> (joined_by = << "owner" >> /\ worker_pc = "exited")
    /\ [][\A h \in Handles : QueueSend(h) /\ joined_by # <<>> =>
            /\ h_cmd[h].op_id \in rejected'
            /\ h_cmd[h].op_id \notin accepted'
            /\ UNCHANGED << chan, enq >>]_vars

\* the owner's join has returned after the worker finished a command that was
\* queued ahead of Shutdown, and the clone's later call was answered with an
\* error
C34_Witness ==
    /\ joined_by = << "owner" >>
    /\ consumed # <<>>
    /\ h_pc["c1"] = "live"
    /\ rejected # {}
    /\ \E d \in 1..Len(done) : done[d].op \in accepted


\* ---------------------------------------------------------------------------
\* C35: AudioCapture::new always returns and reflects the device thread's
\* outcome.  A call that waits eventually returns; it returns Ok only after
\* the thread started the stream and signalled readiness, the stream still
\* playing; and when the thread failed at a step or ended without a signal
\* the call returns AudioInitFailed.
\* ---------------------------------------------------------------------------
C35_NewReflectsDeviceThread ==
    /\ (cn.caller_pc = "waiting") ~> (cn.caller_pc = "returned")
    /\ [][cn.caller_pc = "waiting" /\ cn'.caller_pc = "returned" =>
            /\ cn'.ret = "Ok" <=>
                  (cn.failed_at = "none" /\ cn.stream_playing
                   /\ cn.thread_pc = "parked")
            /\ cn'.ret = "AudioInitFailed" <=> cn.failed_at # "none"
            /\ cn.failed_at # "none" => cn.thread_pc = "ended" /\ ~cn.stream_playing]_vars

\* after a call that returned Ok and one that failed, a call whose thread
\* unwound without a message at the resampler step has returned
C35_Witness ==
    /\ cn.caller_pc = "returned"
    /\ cn.returns = << "Ok", "AudioInitFailed", "AudioInitFailed" >>
    /\ cn.failed_at = "panic"
    /\ cn.needs_resampling


\* ---------------------------------------------------------------------------
\* C36: whenever the processor holds a transcriber, the process-wide engine
\* is in its initialized state, for every sequence of initialize() calls.  A
\* second successful initialize assigns the new transcriber over the previous
\* one, whose drop runs typeswift_cleanup on the engine the new one has just
\* initialized; an initialize that fails at AudioCapture::new on an
\* initialized processor drops the new transcriber with the same effect.
\* ---------------------------------------------------------------------------
C36_HeldTranscriberMeansEngineReady ==
    eng.transcriber => eng.engine_ready


\* ---------------------------------------------------------------------------
\* C37: streaming delta typing keeps typed_text consistent with what was
\* queued.  typed_text always is the concatenation of the deltas queued since
\* the last reset; a call queues a delta, the suffix beyond typed_text, only
\* when the new text strictly extends typed_text as a prefix and queue_typing
\* accepts it; every other call queues nothing and leaves typed_text as it
\* was, a longer non-prefix text being stored in pending_text only.  Stated
\* over the steps that change the manager and are not a reset.
\* ---------------------------------------------------------------------------
RECURSIVE Concat(_)
Concat(parts) == IF parts = <<>> THEN <<>> ELSE Head(parts) \o Concat(Tail(parts))

C37_TypedTextIsQueuedDeltas ==
    /\ [](sm.typed_text = Concat(sm.queued))
    /\ [][sm' # sm /\ sm' # SMNew =>
            \/ \* a delta was queued: the new text strictly extends the typed one
               /\ sm'.queued # sm.queued
               /\ Len(sm'.typed_text) > Len(sm.typed_text)
               /\ SubSeq(sm'.typed_text, 1, Len(sm.typed_text)) = sm.typed_text
               /\ sm'.queued = Append(sm.queued,
                     SubSeq(sm'.typed_text, Len(sm.typed_text) + 1,
                            Len(sm'.typed_text)))
               /\ sm'.pending_text = sm.pending_text
               /\ sm'.refused = sm.refused
            \/ \* a longer non-prefix text: pending_text only
               /\ sm'.pending_text # sm.pending_text
               /\ Len(sm'.pending_text) > Len(sm.typed_text)
               /\ SubSeq(sm'.pending_text, 1, Len(sm.typed_text)) # sm.typed_text
               /\ sm'.queued = sm.queued
               /\ sm'.typed_text = sm.typed_text
               /\ sm'.refused = sm.refused
            \/ \* queue_typing refused the delta: nothing else changes
               /\ sm'.refused = sm.refused + 1
               /\ sm'.queued = sm.queued
               /\ sm'.typed_text = sm.typed_text
               /\ sm'.pending_text = sm.pending_text]_vars

\* after a delta was queued, a longer text that revises the typed one was
\* recorded as pending and a queue_typing call was refused
C37_Witness ==
    /\ sm.queued = << << "a" >> >>
    /\ sm.typed_text = << "a" >>
    /\ sm.pending_text = << "b", "a" >>
    /\ sm.refused = 1


\* ---------------------------------------------------------------------------
\* C38: with several handles calling read_audio concurrently, each sample
\* pushed into the ring is returned by at most one call, and the samples one
\* call returns are contiguous in push order.
\* ---------------------------------------------------------------------------
\* the vectors of the completed calls and of the calls in progress
ReadVectors ==
    { rd.returned[i] : i \in 1..Len(rd.returned) }
       \cup { rd.samples[h] : h \in ReadHandles }

C38_ReadsDisjointAndContiguous ==
    /\ \A k \in 1..rd.pushed :
          Cardinality({ i \in 1..Len(rd.returned) :
                          \E j \in 1..Len(rd.returned[i]) : rd.returned[i][j] = k })
            + Cardinality({ h \in ReadHandles :
                          \E j \in 1..Len(rd.samples[h]) : rd.samples[h][j] = k })
            + Cardinality({ j \in 1..Len(rd.ring) : rd.ring[j] = k }) = 1
    /\ \A v \in ReadVectors :
          \A j \in 1..(Len(v) - 1) : v[j + 1] = v[j] + 1

\* both handles have returned two samples each while the producer pushed
C38_Witness ==
    /\ Len(rd.returned) >= 2
    /\ \A i \in 1..2 : Len(rd.returned[i]) = ReadMaxSamples
    /\ rd.pc["reader"] = "reading"
    /\ rd.pushed = MaxReadSamples


\* ---------------------------------------------------------------------------
\* C39: the push-to-talk events the hotkey layer emits strictly alternate,
\* starting with PushToTalkPressed: PushToTalkPressed is emitted only while
\* push-to-talk is not active and PushToTalkReleased only while it is, whatever
\* the sequence of raw Pressed and Released events.
\* ---------------------------------------------------------------------------
PushToTalkEvents == SelectSeq(hk.emitted, LAMBDA e : e # "ToggleWindow")

C39_PushToTalkAlternates ==
    /\ \A i \in 1..Len(PushToTalkEvents) :
          PushToTalkEvents[i] =
            IF i % 2 = 1 THEN "PushToTalkPressed" ELSE "PushToTalkReleased"
    /\ hk.active = (Len(PushToTalkEvents) % 2 = 1)

\* a key-repeat Pressed and a Released without a Pressed were swallowed
\* around one reported press and release
C39_Witness ==
    /\ hk.raw = MaxRawEvents
    /\ PushToTalkEvents = << "PushToTalkPressed", "PushToTalkReleased" >>
    /\ hk.toggle = "none"
    /\ hk.ptt = "k1"


\* ---------------------------------------------------------------------------
\* C40: in VoicyApp the state changes from Recording to Idle only after the
\* release that ends the current recording has been handled, in every
\* interleaving of press, release and the delayed resets.
\* ---------------------------------------------------------------------------
C40_IdleOnlyAfterOwnRelease ==
    [][ (va.state = "Recording" /\ va'.state = "Idle") => va.release_handled ]_vars

====
